---- MODULE Spec2Model ----
(***************************************************************************)
(* Verification model of git-generator: the diff parser                    *)
(* (internal/git/service.go), the diff processor                           *)
(* (internal/diff/processor.go) and the semantic-version engine            *)
(* (internal/version/service.go, pkg/types).                               *)
(*                                                                         *)
(* Go strings are TLA+ strings; a character is a string of length one.     *)
(* A diff text is a sequence of lines, each line standing for its text     *)
(* followed by "\n".                                                       *)
(***************************************************************************)
EXTENDS Integers, Sequences, FiniteSets, TLC

VARIABLES
    pc,            \* position of the run: which operation has completed
    diffOutput,    \* raw `git diff` output handed to GetDiffSummary
    summary,       \* *types.DiffSummary: parser output, processor input
    maxChunkSize,  \* Processor.maxChunkSize
    maxFiles,      \* Processor.maxFiles
    processed,     \* what ProcessDiff returned
    tags,          \* tag names of the repository, in the order `git tag -l` lists them
    latestVersion, \* what GetLatestVersion returned
    analysis,      \* *types.VersionAnalysis handed to CalculateNextVersion
    options,       \* types.TaggingOptions handed to CalculateNextVersion
    nextVersion,   \* what CalculateNextVersion returned
    rendered,      \* nextVersion.String() or nextVersion.TagName()
    reparsed,      \* what ParseVersion returned for rendered
    gitState,      \* the work tree the tag command runs in
    flags,         \* command-line flags and configuration of the tag command
    tagRun,        \* what the run of the tag command has done so far
    detector,      \* Detector.rules of the scope detector
    detection,     \* the files handed to DetectScope and what it returned
    validator,     \* Validator.config
    formatter,     \* MessageFormatter.config
    message,       \* the *types.CommitMessage being formatted and validated
    validation,    \* what ValidateCommitMessage returned
    formatted,     \* what FormatCommitMessage returned
    changeContext, \* the *types.ChangeContext AnalyzeChangeContext returned
    clock,         \* the reading of time.Now(), in ticks
    limiter,       \* the *RateLimiter: lastRequest and minInterval
    waiting,       \* the call of Wait in progress, if any
    waitLog,       \* when the calls of Wait made so far returned
    responseText,  \* the text of the AI response handed to parseVersionAnalysis
    parsedAnalysis, \* what parseVersionAnalysis returned
    generation,    \* the call of generator.Service.Generate: options, outcomes, result
    callers,       \* the goroutines sharing one RateLimiter: where each is in Wait
    returns        \* the clock readings at which their calls of Wait returned

parseVars == <<diffOutput>>
procVars  == <<maxChunkSize, maxFiles, processed>>
verVars   == <<tags, latestVersion, analysis, options, nextVersion, rendered, reparsed>>

tagVars   == <<gitState, flags, tagRun>>

scopeVars == <<detector, detection>>

msgVars   == <<validator, formatter, message, validation, formatted>>

ctxVars   == <<changeContext>>

limVars   == <<clock, limiter, waiting, waitLog>>

respVars  == <<responseText, parsedAnalysis>>

genVars   == <<generation>>

concVars  == <<callers, returns>>

vars == <<pc, summary, parseVars, procVars, verVars, tagVars, scopeVars, msgVars, ctxVars,
          limVars, respVars, genVars, concVars>>

\* The value of a variable that holds nothing (a nil pointer, no result yet)
Nil == [nil |-> TRUE]

-----------------------------------------------------------------------------
(* Bounds *)

MaxDiffLines == 4
MaxInputFiles == 3
MaxTags == 2

-----------------------------------------------------------------------------
(* strings package *)

\* s[i] as a one-character string, "" past the ends of s
CharAt(s, i) == IF 1 <= i /\ i <= Len(s) THEN SubSeq(s, i, i) ELSE ""

\* s[i:] (1-based, inclusive start)
From(s, i) == SubSeq(s, i, Len(s))

HasPrefix(s, prefix) ==
    /\ Len(s) >= Len(prefix)
    /\ SubSeq(s, 1, Len(prefix)) = prefix

HasSuffix(s, suffix) ==
    /\ Len(s) >= Len(suffix)
    /\ SubSeq(s, Len(s) - Len(suffix) + 1, Len(s)) = suffix

TrimPrefix(s, prefix) ==
    IF HasPrefix(s, prefix) THEN From(s, Len(prefix) + 1) ELSE s

Contains(s, substr) ==
    \E i \in 1..(Len(s) - Len(substr) + 1) :
        SubSeq(s, i, i + Len(substr) - 1) = substr

IsSpace(c) == c \in {" ", "\t"}

\* strings.Fields: the maximal runs of non-space characters of s, in order
RECURSIVE FieldsFrom(_, _, _, _)
FieldsFrom(s, i, cur, acc) ==
    IF i > Len(s)
    THEN IF cur = "" THEN acc ELSE Append(acc, cur)
    ELSE IF IsSpace(CharAt(s, i))
         THEN FieldsFrom(s, i + 1, "", IF cur = "" THEN acc ELSE Append(acc, cur))
         ELSE FieldsFrom(s, i + 1, cur \o CharAt(s, i), acc)

Fields(s) == FieldsFrom(s, 1, "", <<>>)

-----------------------------------------------------------------------------
(* types.ChangeType *)

ChangeTypeAdded    == "added"
ChangeTypeModified == "modified"
ChangeTypeDeleted  == "deleted"
ChangeTypeRenamed  == "renamed"
ChangeTypeCopied   == "copied"

-----------------------------------------------------------------------------
(* Diff text *)

\* A line of diff output.  tooLong marks a line longer than the 64 KiB token
\* limit of bufio.Scanner; text then holds the beginning of the line.
DiffLine(text, tooLong) == [text |-> text, tooLong |-> tooLong]

InputLines ==
    { DiffLine(t, FALSE) : t \in { "diff --git a/x b/x",
                                   "diff --git a/x b/y",
                                   "new file mode 100644",
                                   "deleted file mode 100644",
                                   "--- a/x",
                                   "+++ b/x",
                                   "@@ -1 +1 @@",
                                   "+a",
                                   "-a",
                                   " a" } }
    \cup { DiffLine("+a", TRUE) }

-----------------------------------------------------------------------------
(* internal/git/service.go: diff parsing *)

ToLowerChar(c) ==
    LET upper == "ABCDEFGHIJKLMNOPQRSTUVWXYZ"
        lower == "abcdefghijklmnopqrstuvwxyz"
    IN IF \E i \in 1..26 : CharAt(upper, i) = c
       THEN CharAt(lower, CHOOSE i \in 1..26 : CharAt(upper, i) = c)
       ELSE c

\* strings.ToLower, the two halves of s lowered one after the other
RECURSIVE ToLower(_)
ToLower(s) ==
    IF Len(s) <= 1 THEN ToLowerChar(s)
    ELSE LET mid == Len(s) \div 2
         IN ToLower(SubSeq(s, 1, mid)) \o ToLower(From(s, mid + 1))

\* filepath.Ext: the suffix starting at the last dot of the last path element
RECURSIVE ExtFrom(_, _)
ExtFrom(path, i) ==
    IF i < 1 \/ CharAt(path, i) = "/" THEN ""
    ELSE IF CharAt(path, i) = "." THEN From(path, i)
    ELSE ExtFrom(path, i - 1)

Ext(path) == ExtFrom(path, Len(path))

languageMap ==
    ".go" :> "Go" @@ ".js" :> "JavaScript" @@ ".ts" :> "TypeScript" @@
    ".py" :> "Python" @@ ".java" :> "Java" @@ ".cpp" :> "C++" @@
    ".c" :> "C" @@ ".cs" :> "C#" @@ ".php" :> "PHP" @@ ".rb" :> "Ruby" @@
    ".rs" :> "Rust" @@ ".sh" :> "Shell" @@ ".sql" :> "SQL" @@
    ".html" :> "HTML" @@ ".css" :> "CSS" @@ ".scss" :> "SCSS" @@
    ".sass" :> "Sass" @@ ".json" :> "JSON" @@ ".xml" :> "XML" @@
    ".yaml" :> "YAML" @@ ".yml" :> "YAML" @@ ".md" :> "Markdown" @@
    ".txt" :> "Text"

detectLanguage(filePath) ==
    LET ext == ToLower(Ext(filePath))
    IN IF ext \in DOMAIN languageMap THEN languageMap[ext] ELSE "Unknown"

\* parseHunkCounts: <<added, deleted>> over hunkLines[i..]
RECURSIVE parseHunkCountsFrom(_, _, _, _)
parseHunkCountsFrom(hunkLines, i, added, deleted) ==
    IF i > Len(hunkLines) THEN <<added, deleted>>
    ELSE LET line == hunkLines[i] IN
         IF HasPrefix(line, "+") /\ ~HasPrefix(line, "+++")
         THEN parseHunkCountsFrom(hunkLines, i + 1, added + 1, deleted)
         ELSE IF HasPrefix(line, "-") /\ ~HasPrefix(line, "---")
         THEN parseHunkCountsFrom(hunkLines, i + 1, added, deleted + 1)
         ELSE parseHunkCountsFrom(hunkLines, i + 1, added, deleted)

parseHunkCounts(hunkLines) == parseHunkCountsFrom(hunkLines, 1, 0, 0)

\* The header comparison of parseFileSection: parts[2] != parts[3]
HeaderPathsDiffer(parts) == parts[3] # parts[4]

\* The `diff --git` branch of parseFileSection's loop (parts is 1-based here)
ParseHeaderLine(fc, line) ==
    LET parts == Fields(line) IN
    IF Len(parts) >= 4
    THEN LET withPath == [fc EXCEPT !.Path = TrimPrefix(parts[4], "b/")] IN
         IF HeaderPathsDiffer(parts)
         THEN [withPath EXCEPT !.OldPath = TrimPrefix(parts[3], "a/"),
                               !.ChangeType = ChangeTypeRenamed]
         ELSE withPath
    ELSE fc

\* The loop of parseFileSection over lines[i..], ending at the first hunk header
RECURSIVE ParseSectionLines(_, _, _)
ParseSectionLines(lines, i, fc) ==
    IF i > Len(lines) THEN fc
    ELSE LET line == lines[i] IN
         IF HasPrefix(line, "diff --git")
         THEN ParseSectionLines(lines, i + 1, ParseHeaderLine(fc, line))
         ELSE IF HasPrefix(line, "new file mode")
         THEN ParseSectionLines(lines, i + 1, [fc EXCEPT !.ChangeType = ChangeTypeAdded])
         ELSE IF HasPrefix(line, "deleted file mode")
         THEN ParseSectionLines(lines, i + 1, [fc EXCEPT !.ChangeType = ChangeTypeDeleted])
         ELSE IF HasPrefix(line, "@@")
         THEN LET counts == parseHunkCounts(SubSeq(lines, i, Len(lines)))
              IN [fc EXCEPT !.LinesAdded = counts[1], !.LinesDeleted = counts[2]]
         ELSE ParseSectionLines(lines, i + 1, fc)

\* strings.Split(section, "\n"): every line of the section ends in "\n", so
\* the split yields the lines followed by one empty string
SplitLines(section) == IF section = <<>> THEN <<"">> ELSE Append(section, "")

\* parseFileSection: [ok |-> FALSE] is the error return
parseFileSection(section) ==
    LET lines == SplitLines(section) IN
    IF Len(lines) < 2 THEN [ok |-> FALSE]
    ELSE LET fc0 == [Path |-> "", OldPath |-> "", ChangeType |-> "",
                     LinesAdded |-> 0, LinesDeleted |-> 0,
                     Content |-> section, Language |-> ""]
             fc1 == ParseSectionLines(lines, 1, fc0)
             fc2 == IF fc1.ChangeType = ""
                    THEN [fc1 EXCEPT !.ChangeType = ChangeTypeModified]
                    ELSE fc1
         IN [ok |-> TRUE,
             file |-> [fc2 EXCEPT !.Language = detectLanguage(fc2.Path)]]

\* bufio.Scanner with the default buffer: Scan yields the lines in order and
\* returns false at the first line longer than the token limit (the error is
\* kept in scanner.Err(), which splitDiffByFile does not read)
RECURSIVE ScanLines(_, _)
ScanLines(text, i) ==
    IF i > Len(text) \/ text[i].tooLong THEN <<>>
    ELSE <<text[i].text>> \o ScanLines(text, i + 1)

\* splitDiffByFile: the loop over the scanned lines, then the final flush
RECURSIVE SplitFrom(_, _, _, _)
SplitFrom(scanned, i, sections, currentSection) ==
    IF i > Len(scanned)
    THEN IF Len(currentSection) > 0 THEN Append(sections, currentSection)
                                    ELSE sections
    ELSE LET line == scanned[i]
             flush == HasPrefix(line, "diff --git") /\ Len(currentSection) > 0
         IN SplitFrom(scanned, i + 1,
                      IF flush THEN Append(sections, currentSection) ELSE sections,
                      Append(IF flush THEN <<>> ELSE currentSection, line))

splitDiffByFile(text) == SplitFrom(ScanLines(text, 1), 1, <<>>, <<>>)

\* parseDiff: the loop over the sections, skipping those that fail to parse
RECURSIVE ParseSections(_, _, _)
ParseSections(fileSections, i, acc) ==
    IF i > Len(fileSections) THEN acc
    ELSE LET r == parseFileSection(fileSections[i]) IN
         IF ~r.ok THEN ParseSections(fileSections, i + 1, acc)
         ELSE ParseSections(fileSections, i + 1,
                [Files        |-> Append(acc.Files, r.file),
                 TotalAdded   |-> acc.TotalAdded + r.file.LinesAdded,
                 TotalDeleted |-> acc.TotalDeleted + r.file.LinesDeleted,
                 TotalFiles   |-> 0])

parseDiff(text) ==
    LET acc == ParseSections(splitDiffByFile(text), 1,
                  [Files |-> <<>>, TotalAdded |-> 0, TotalDeleted |-> 0,
                   TotalFiles |-> 0])
    IN [acc EXCEPT !.TotalFiles = Len(acc.Files)]

EmptySummary ==
    [Files |-> <<>>, TotalAdded |-> 0, TotalDeleted |-> 0, TotalFiles |-> 0]

-----------------------------------------------------------------------------
(* Parser run: the repository produces diff text, GetDiffSummary parses it *)

ParseIdle == diffOutput = <<>>

ProcIdle == maxChunkSize = 0 /\ maxFiles = 0 /\ processed = Nil

VerIdle ==
    /\ tags = <<>>
    /\ latestVersion = Nil
    /\ analysis = Nil
    /\ options = Nil
    /\ nextVersion = Nil
    /\ rendered = Nil
    /\ reparsed = Nil

TagIdle == gitState = Nil /\ flags = Nil /\ tagRun = Nil

ScopeIdle == detector = Nil /\ detection = Nil

MsgIdle ==
    /\ validator = Nil
    /\ formatter = Nil
    /\ message = Nil
    /\ validation = Nil
    /\ formatted = Nil

CtxIdle == changeContext = Nil

LimIdle == clock = 0 /\ limiter = Nil /\ waiting = Nil /\ waitLog = Nil

RespIdle == responseText = Nil /\ parsedAnalysis = Nil

GenIdle == generation = Nil

ConcIdle == callers = Nil /\ returns = Nil

InitParse ==
    /\ pc = "diff"
    /\ diffOutput = <<>>
    /\ summary = Nil
    /\ ProcIdle
    /\ VerIdle
    /\ TagIdle
    /\ ScopeIdle
    /\ MsgIdle
    /\ CtxIdle
    /\ LimIdle
    /\ RespIdle
    /\ GenIdle
    /\ ConcIdle

\* One more line of output of `git diff`
EmitDiffLine ==
    /\ pc = "diff"
    /\ Len(diffOutput) < MaxDiffLines
    /\ \E l \in InputLines : diffOutput' = Append(diffOutput, l)
    /\ UNCHANGED <<pc, summary, procVars, verVars, tagVars, scopeVars, msgVars, ctxVars, limVars, respVars, genVars, concVars>>

GetDiffSummary ==
    /\ pc = "diff"
    /\ summary' = IF diffOutput = <<>> THEN EmptySummary ELSE parseDiff(diffOutput)
    /\ pc' = "parsed"
    /\ UNCHANGED <<diffOutput, procVars, verVars, tagVars, scopeVars, msgVars, ctxVars, limVars, respVars, genVars, concVars>>

NextParse == EmitDiffLine \/ GetDiffSummary

SpecParse == InitParse /\ [][NextParse]_vars

-----------------------------------------------------------------------------
(* Properties of the diff parser *)

IsHeaderLine(t) == HasPrefix(t, "diff --git")
IsModeLine(t)   == HasPrefix(t, "new file mode") \/ HasPrefix(t, "deleted file mode")
IsHunkHeader(t) == HasPrefix(t, "@@")
IsBodyLine(t)   == t \in {"+a", "-a", " a"}

\* The grammar of a diff made of well-formed sections: a `diff --git` header,
\* an optional file-mode line, an optional `---` / `+++` pair, then hunks,
\* each an `@@` header followed by at least one body line.
RECURSIVE WellFormedFrom(_, _, _)
WellFormedFrom(text, i, at) ==
    IF i > Len(text) THEN at \in {"header", "mode", "body"}
    ELSE LET t == text[i].text IN
         CASE IsHeaderLine(t) ->
                at \in {"start", "header", "mode", "body"}
                /\ WellFormedFrom(text, i + 1, "header")
           [] IsModeLine(t) ->
                at = "header" /\ WellFormedFrom(text, i + 1, "mode")
           [] HasPrefix(t, "---") ->
                at \in {"header", "mode"} /\ WellFormedFrom(text, i + 1, "minus")
           [] HasPrefix(t, "+++") ->
                at = "minus" /\ WellFormedFrom(text, i + 1, "plus")
           [] IsHunkHeader(t) ->
                at \in {"header", "mode", "plus", "body"}
                /\ WellFormedFrom(text, i + 1, "hunk")
           [] OTHER ->
                IsBodyLine(t) /\ at \in {"hunk", "body"}
                /\ WellFormedFrom(text, i + 1, "body")

WellFormedDiff(text) == Len(text) > 0 /\ WellFormedFrom(text, 1, "start")

\* The header lines of the diff text, in input order
HeaderLines(text) == SelectSeq(text, LAMBDA l : IsHeaderLine(l.text))

RECURSIVE SumOver(_, _)
SumOver(fs, field) ==
    IF fs = <<>> THEN 0
    ELSE (IF field = "added" THEN fs[1].LinesAdded ELSE fs[1].LinesDeleted)
         + SumOver(Tail(fs), field)

HasLine(section, P(_)) == \E i \in 1..Len(section) : P(section[i])

\* C1: a section whose header names the same path on both sides
\* (`diff --git a/x b/x`) and that has no `new file mode` / `deleted file
\* mode` line is parsed as modified with an empty OldPath, and renamed (with
\* OldPath set) is produced only when the two header paths differ.
C1_SamePathSectionIsModified ==
    pc = "parsed" =>
        \A i \in 1..Len(summary.Files) :
            LET f == summary.Files[i] IN
            /\ (/\ Len(f.Content) > 0
                /\ f.Content[1] = "diff --git a/x b/x"
                /\ ~HasLine(f.Content, IsModeLine))
               => (f.ChangeType = ChangeTypeModified /\ f.OldPath = "")
            /\ f.ChangeType = ChangeTypeRenamed
               => (Len(f.Content) > 0 /\ f.Content[1] = "diff --git a/x b/y")

\* C2: for a diff text made of N well-formed sections parseDiff returns
\* exactly N FileChange records in input order, TotalFiles = N, and
\* TotalAdded / TotalDeleted are the sums of the per-file counts.
C2_OneRecordPerSection ==
    (pc = "parsed" /\ WellFormedDiff(diffOutput)) =>
        LET hdrs == HeaderLines(diffOutput) IN
        /\ Len(summary.Files) = Len(hdrs)
        /\ summary.TotalFiles = Len(hdrs)
        /\ \A i \in 1..Len(summary.Files) :
               /\ i <= Len(hdrs)
               /\ summary.Files[i].Content[1] = hdrs[i].text
        /\ summary.TotalAdded = SumOver(summary.Files, "added")
        /\ summary.TotalDeleted = SumOver(summary.Files, "deleted")

-----------------------------------------------------------------------------
(* internal/diff/processor.go *)

DefaultMaxChunkSize == 4000
DefaultMaxFiles     == 20

getChangeTypePriority_SwapAddedDeleted(changeType) ==
    CASE changeType = ChangeTypeAdded    -> 3
      [] changeType = ChangeTypeDeleted  -> 4
      [] changeType = ChangeTypeRenamed  -> 2
      [] changeType = ChangeTypeModified -> 1
      [] OTHER -> 0

getChangeTypePriority(changeType) ==
    CASE changeType = ChangeTypeAdded    -> 4
      [] changeType = ChangeTypeDeleted  -> 3
      [] changeType = ChangeTypeRenamed  -> 2
      [] changeType = ChangeTypeModified -> 1
      [] OTHER -> 0

IsDependencyFile(path) ==
    \/ Contains(path, "package.json") \/ Contains(path, "go.mod")
    \/ Contains(path, "requirements.txt") \/ Contains(path, "cargo.toml")
    \/ Contains(path, "pom.xml") \/ Contains(path, "build.gradle")

IsConfigFile(path) ==
    \/ Contains(path, "config") \/ Contains(path, ".env")
    \/ HasSuffix(path, ".json") \/ HasSuffix(path, ".yaml")
    \/ HasSuffix(path, ".yml") \/ HasSuffix(path, ".toml")

IsDocFile(path) ==
    \/ HasSuffix(path, ".md") \/ HasSuffix(path, ".rst")
    \/ Contains(path, "readme") \/ Contains(path, "doc")

IsTestFile(path) ==
    \/ Contains(path, "test") \/ Contains(path, "spec")
    \/ HasSuffix(path, "_test.go") \/ HasSuffix(path, ".test.js")

IsSourceFile(path) ==
    \/ HasSuffix(path, ".go") \/ HasSuffix(path, ".js")
    \/ HasSuffix(path, ".ts") \/ HasSuffix(path, ".py")
    \/ HasSuffix(path, ".java") \/ HasSuffix(path, ".cpp")
    \/ HasSuffix(path, ".c") \/ HasSuffix(path, ".rs")

IsWebAsset(path) ==
    \/ HasSuffix(path, ".css") \/ HasSuffix(path, ".scss")
    \/ HasSuffix(path, ".html") \/ HasSuffix(path, ".vue")
    \/ HasSuffix(path, ".jsx") \/ HasSuffix(path, ".tsx")

getFileImportance_SourceBeforeTest(filePath) ==
    LET path == ToLower(filePath) IN
    IF IsDependencyFile(path) THEN 9
    ELSE IF IsConfigFile(path) THEN 8
    ELSE IF IsDocFile(path) THEN 7
    ELSE IF IsSourceFile(path) THEN 6
    ELSE IF IsTestFile(path) THEN 5
    ELSE IF IsWebAsset(path) THEN 4
    ELSE 3

getFileImportance(filePath) ==
    LET path == ToLower(filePath) IN
    IF IsDependencyFile(path) THEN 9
    ELSE IF IsConfigFile(path) THEN 8
    ELSE IF IsDocFile(path) THEN 7
    ELSE IF IsTestFile(path) THEN 5
    ELSE IF IsSourceFile(path) THEN 6
    ELSE IF IsWebAsset(path) THEN 4
    ELSE 3

\* The less function prioritizeFiles hands to sort.Slice
less(fileI, fileJ) ==
    LET priorityI == getChangeTypePriority(fileI.ChangeType)
        priorityJ == getChangeTypePriority(fileJ.ChangeType)
        importanceI == getFileImportance(fileI.Path)
        importanceJ == getFileImportance(fileJ.Path)
        totalChangesI == fileI.LinesAdded + fileI.LinesDeleted
        totalChangesJ == fileJ.LinesAdded + fileJ.LinesDeleted
    IN IF priorityI # priorityJ THEN priorityI > priorityJ
       ELSE IF importanceI # importanceJ THEN importanceI > importanceJ
       ELSE totalChangesI < totalChangesJ

\* The rearrangements of a slice
Rearrangements(files) ==
    LET n == Len(files)
        bijections == { p \in [1..n -> 1..n] : \A i, j \in 1..n : i # j => p[i] # p[j] }
    IN { [i \in 1..n |-> files[p[i]]] : p \in bijections }

\* prioritizeFiles: sort.Slice orders a copy of the slice by less and does
\* not promise stability, so every ordering of the files in which no element
\* is less than an earlier one is a possible result
prioritizeFiles(files) ==
    { sorted \in Rearrangements(files) :
        \A i, j \in 1..Len(sorted) : i < j => ~less(sorted[j], sorted[i]) }

LimitFiles_OffByOne(sortedFiles, limit) ==
    IF Len(sortedFiles) > limit + 1 THEN SubSeq(sortedFiles, 1, limit + 1) ELSE sortedFiles

\* ProcessDiff: sortedFiles[:p.maxFiles] when the list is longer than that
LimitFiles(sortedFiles, limit) ==
    IF Len(sortedFiles) > limit THEN SubSeq(sortedFiles, 1, limit) ELSE sortedFiles

\* number of files of the given change type, as generateChunkDescription and
\* generateSummary count them in their changeTypes map
CountByChangeType(files) ==
    LET present == { files[i].ChangeType : i \in 1..Len(files) }
    IN [t \in present |-> Cardinality({ i \in 1..Len(files) : files[i].ChangeType = t })]

\* generateChunkDescription.  The description of several files joins one
\* "<count> <type>" part per change type in map iteration order; the model
\* keeps the parts as the map they are taken from.
generateChunkDescription(files) ==
    IF Len(files) = 0 THEN [text |-> "Empty chunk"]
    ELSE IF Len(files) = 1
    THEN [changeType |-> files[1].ChangeType, path |-> files[1].Path,
          added |-> files[1].LinesAdded, deleted |-> files[1].LinesDeleted]
    ELSE [files |-> Len(files), parts |-> CountByChangeType(files),
          added |-> SumOver(files, "added"), deleted |-> SumOver(files, "deleted")]

StartsNewChunk_IgnoresFileSize(currentSize, fileSize, currentFiles, limit) ==
    currentSize > limit /\ Len(currentFiles) > 0

\* createChunks: the test that closes the current chunk before a file
StartsNewChunk(currentSize, fileSize, currentFiles, limit) ==
    currentSize + fileSize > limit /\ Len(currentFiles) > 0

MakeChunk_CountsFiles(chunkFiles, size) ==
    [Files |-> chunkFiles, Description |-> generateChunkDescription(chunkFiles),
     Size |-> Len(chunkFiles)]

\* createChunks: the DiffChunk literal appended for the current files
MakeChunk(chunkFiles, size) ==
    [Files |-> chunkFiles, Description |-> generateChunkDescription(chunkFiles),
     Size |-> size]

\* createChunks: the loop over files[i..], then the final flush
RECURSIVE ChunksFrom(_, _, _, _, _, _)
ChunksFrom(files, i, chunks, currentFiles, currentSize, limit) ==
    IF i > Len(files)
    THEN IF Len(currentFiles) > 0
         THEN Append(chunks, MakeChunk(currentFiles, currentSize))
         ELSE chunks
    ELSE LET file == files[i]
             fileSize == Len(file.Content)
         IN IF StartsNewChunk(currentSize, fileSize, currentFiles, limit)
            THEN ChunksFrom(files, i + 1,
                            Append(chunks, MakeChunk(currentFiles, currentSize)),
                            <<file>>, fileSize, limit)
            ELSE ChunksFrom(files, i + 1, chunks,
                            Append(currentFiles, file), currentSize + fileSize, limit)

createChunks(files, limit) == ChunksFrom(files, 1, <<>>, <<>>, 0, limit)

\* extractLanguages: files per language, "Unknown" left out
extractLanguages(files) ==
    LET langs == { files[i].Language : i \in 1..Len(files) } \ {"Unknown"}
    IN [l \in langs |-> Cardinality({ i \in 1..Len(files) : files[i].Language = l })]

\* generateSummary, with the parts kept as the maps they are taken from
generateSummary(s, files) ==
    IF Len(files) = 0 THEN [text |-> "No changes detected"]
    ELSE [parts |-> CountByChangeType(files), added |-> s.TotalAdded,
          deleted |-> s.TotalDeleted, languages |-> extractLanguages(files)]

-----------------------------------------------------------------------------
(* Processor run: NewProcessor, a DiffSummary is filled in, ProcessDiff *)

File(path, changeType, added, deleted, content) ==
    [Path |-> path, OldPath |-> "", ChangeType |-> changeType,
     LinesAdded |-> added, LinesDeleted |-> deleted, Content |-> content,
     Language |-> detectLanguage(path)]

\* The files a DiffSummary is filled with.  go.mod is a file as
\* GetCommitDiffSummary builds it from a numstat line: counts, no Content.
InputFiles ==
    { File("a.go",           ChangeTypeAdded,    2, 0, "cc"),
      File("b.go",           ChangeTypeAdded,    2, 0, "ccc"),
      File("c.go",           ChangeTypeAdded,    1, 0, "c"),
      File("a_test.go",      ChangeTypeDeleted,  0, 2, "cc"),
      File("README.md",      ChangeTypeRenamed,  0, 0, "c"),
      File("go.mod",         ChangeTypeModified, 1, 1, ""),
      File("test/data.json", ChangeTypeModified, 1, 0, "cccc"),
      File("a.css",          ChangeTypeCopied,   1, 0, "c") }

\* <<maxChunkSize, maxFiles>> arguments of NewProcessor: the defaults
\* requested with zeros, and custom limits
ProcessorArgs == { <<0, 0>>, <<3, 2>> }

InitProc ==
    /\ pc = "new"
    /\ summary = Nil
    /\ ParseIdle
    /\ ProcIdle
    /\ VerIdle
    /\ TagIdle
    /\ ScopeIdle
    /\ MsgIdle
    /\ CtxIdle
    /\ LimIdle
    /\ RespIdle
    /\ GenIdle
    /\ ConcIdle

NewProcessor ==
    /\ pc = "new"
    /\ \E args \in ProcessorArgs :
         /\ maxChunkSize' = IF args[1] <= 0 THEN DefaultMaxChunkSize ELSE args[1]
         /\ maxFiles' = IF args[2] <= 0 THEN DefaultMaxFiles ELSE args[2]
    /\ pc' = "input"
    /\ UNCHANGED <<summary, processed, parseVars, verVars, tagVars, scopeVars, msgVars, ctxVars, limVars, respVars, genVars, concVars>>

\* The caller obtains an (empty) DiffSummary
NewSummary ==
    /\ pc = "input"
    /\ summary = Nil
    /\ summary' = EmptySummary
    /\ UNCHANGED <<pc, parseVars, procVars, verVars, tagVars, scopeVars, msgVars, ctxVars, limVars, respVars, genVars, concVars>>

\* One more FileChange in the DiffSummary, the totals kept as parseDiff keeps them
AddFile ==
    /\ pc = "input"
    /\ summary # Nil
    /\ Len(summary.Files) < MaxInputFiles
    /\ \E f \in InputFiles :
         summary' = [Files        |-> Append(summary.Files, f),
                     TotalAdded   |-> summary.TotalAdded + f.LinesAdded,
                     TotalDeleted |-> summary.TotalDeleted + f.LinesDeleted,
                     TotalFiles   |-> Len(summary.Files) + 1]
    /\ UNCHANGED <<pc, parseVars, procVars, verVars, tagVars, scopeVars, msgVars, ctxVars, limVars, respVars, genVars, concVars>>

ProcessDiff ==
    /\ pc = "input"
    /\ IF summary = Nil
       THEN processed' = [err |-> "diff summary is nil"]
       ELSE \E sorted \in prioritizeFiles(summary.Files) :
              LET sortedFiles == LimitFiles(sorted, maxFiles) IN
              processed' = [Summary      |-> generateSummary(summary, sortedFiles),
                            Chunks       |-> createChunks(sortedFiles, maxChunkSize),
                            TotalFiles   |-> Len(sortedFiles),
                            TotalAdded   |-> summary.TotalAdded,
                            TotalDeleted |-> summary.TotalDeleted,
                            Languages    |-> extractLanguages(sortedFiles),
                            DiffSummary  |-> summary]
    /\ pc' = "processed"
    /\ UNCHANGED <<summary, maxChunkSize, maxFiles, parseVars, verVars, tagVars, scopeVars, msgVars, ctxVars, limVars, respVars, genVars, concVars>>

\* prioritizeFiles called on its own (TestProcessor_PrioritizeFiles)
PrioritizeFiles ==
    /\ pc = "input"
    /\ summary # Nil
    /\ \E sorted \in prioritizeFiles(summary.Files) : processed' = [Sorted |-> sorted]
    /\ pc' = "sorted"
    /\ UNCHANGED <<summary, maxChunkSize, maxFiles, parseVars, verVars, tagVars, scopeVars, msgVars, ctxVars, limVars, respVars, genVars, concVars>>

\* createChunks called on its own (TestProcessor_CreateChunks)
CreateChunks ==
    /\ pc = "input"
    /\ summary # Nil
    /\ processed' = [Chunks |-> createChunks(summary.Files, maxChunkSize)]
    /\ pc' = "chunked"
    /\ UNCHANGED <<summary, maxChunkSize, maxFiles, parseVars, verVars, tagVars, scopeVars, msgVars, ctxVars, limVars, respVars, genVars, concVars>>

NextProc ==
    NewProcessor \/ NewSummary \/ AddFile \/ ProcessDiff \/ PrioritizeFiles \/ CreateChunks

SpecProc == InitProc /\ [][NextProc]_vars

-----------------------------------------------------------------------------
(* Properties of the diff processor *)

HasChunks == pc \in {"processed", "chunked"} /\ summary # Nil

RECURSIVE ChunkFiles(_)
ChunkFiles(chunks) ==
    IF chunks = <<>> THEN <<>> ELSE chunks[1].Files \o ChunkFiles(Tail(chunks))

Min(a, b) == IF a <= b THEN a ELSE b

\* C3: a chunk of two or more files has Size <= maxChunkSize; a chunk whose
\* Size exceeds maxChunkSize holds exactly one file, whose own content is
\* longer than maxChunkSize.
C3_ChunkWithinBudget ==
    HasChunks =>
        \A c \in 1..Len(processed.Chunks) :
            LET chunk == processed.Chunks[c] IN
            /\ Len(chunk.Files) >= 2 => chunk.Size <= maxChunkSize
            /\ chunk.Size > maxChunkSize =>
                   /\ Len(chunk.Files) = 1
                   /\ Len(chunk.Files[1].Content) > maxChunkSize

\* createChunks has produced both a chunk of several files and an oversized
\* single-file chunk
C3_Witness ==
    /\ HasChunks
    /\ \E c \in 1..Len(processed.Chunks) : Len(processed.Chunks[c].Files) >= 2
    /\ \E c \in 1..Len(processed.Chunks) : processed.Chunks[c].Size > maxChunkSize

\* The sort key of the prioritization as the specification states it
TypePriority(changeType) ==
    CASE changeType = "added" -> 4 [] changeType = "deleted" -> 3
      [] changeType = "renamed" -> 2 [] changeType = "modified" -> 1
      [] OTHER -> 0

NotWorse(f, g) ==
    LET pf == TypePriority(f.ChangeType)  pg == TypePriority(g.ChangeType)
        mf == getFileImportance(f.Path)   mg == getFileImportance(g.Path)
        lf == f.LinesAdded + f.LinesDeleted
        lg == g.LinesAdded + g.LinesDeleted
    IN \/ pf > pg
       \/ pf = pg /\ mf > mg
       \/ pf = pg /\ mf = mg /\ lf <= lg

Occurrences(files, f) == Cardinality({ i \in 1..Len(files) : files[i] = f })

IsPermutationOf(a, b) ==
    /\ Len(a) = Len(b)
    /\ \A i \in 1..Len(a) : Occurrences(a, a[i]) = Occurrences(b, a[i])

PrioritySorted(files) == \A i, j \in 1..Len(files) : i < j => NotWorse(files[i], files[j])

\* C4: the files of ProcessDiff's chunks, concatenated in chunk order, are
\* the first min(n, maxFiles) files of a priority-sorted arrangement of the
\* input; their number is TotalFiles and never exceeds maxFiles.
C4_ChunksHoldLimitedSortedFiles ==
    (pc = "processed" /\ summary # Nil) =>
        LET cat == ChunkFiles(processed.Chunks)
            n   == Len(summary.Files)
        IN /\ Len(cat) = Min(n, maxFiles)
           /\ processed.TotalFiles = Len(cat)
           /\ Len(cat) <= maxFiles
           /\ \E s \in Rearrangements(summary.Files) :
                  PrioritySorted(s) /\ cat = SubSeq(s, 1, Len(cat))

\* ProcessDiff has dropped files beyond maxFiles and split the rest in chunks
C4_Witness ==
    /\ pc = "processed" /\ summary # Nil
    /\ Len(summary.Files) > maxFiles
    /\ Len(processed.Chunks) >= 2

\* C5: prioritizeFiles returns a permutation of its input ordered by
\* (change-type priority descending, file importance descending, line delta
\* ascending); every added file precedes every deleted file, which precedes
\* every renamed and every modified file.
C5_PrioritizedOrder ==
    pc = "sorted" =>
        LET s == processed.Sorted IN
        /\ IsPermutationOf(s, summary.Files)
        /\ PrioritySorted(s)
        /\ \A i, j \in 1..Len(s) :
              (\/ s[i].ChangeType = "added"
                  /\ s[j].ChangeType \in {"deleted", "renamed", "modified"}
               \/ s[i].ChangeType = "deleted"
                  /\ s[j].ChangeType \in {"renamed", "modified"})
              => i < j

\* prioritizeFiles has reordered an input holding an added, a deleted and a
\* modified file
C5_Witness ==
    /\ pc = "sorted"
    /\ processed.Sorted # summary.Files
    /\ \A t \in {"added", "deleted", "modified"} :
           \E i \in 1..Len(summary.Files) : summary.Files[i].ChangeType = t

MatchesTestPattern(filePath) ==
    LET path == ToLower(filePath) IN
    \/ Contains(path, "test") \/ Contains(path, "spec")
    \/ HasSuffix(path, "_test.go") \/ HasSuffix(path, ".test.js")

Prioritized == pc \in {"sorted", "processed"} /\ summary # Nil

\* C6 as stated: a file whose path matches a test-file pattern never gets an
\* importance above that of source code (6), whatever else its path contains.
C6_TestNeverAboveSource ==
    Prioritized =>
        \A i \in 1..Len(summary.Files) :
            MatchesTestPattern(summary.Files[i].Path)
                => getFileImportance(summary.Files[i].Path) <= 6

\* C6 amended: a file whose path matches a test-file pattern and none of the
\* dependency-manifest, configuration or documentation patterns, which are
\* checked first, gets importance 5, below source code (6), also when it has
\* a source extension; a test path matching an earlier pattern gets that
\* pattern's importance 9, 8 or 7.
C6_TestBelowSourceUnlessEarlierPattern ==
    Prioritized =>
        \A i \in 1..Len(summary.Files) :
            LET filePath == summary.Files[i].Path
                path == ToLower(filePath)
                earlier == IsDependencyFile(path) \/ IsConfigFile(path) \/ IsDocFile(path)
            IN MatchesTestPattern(filePath) =>
                 /\ ~earlier => getFileImportance(filePath) = 5
                 /\ earlier => getFileImportance(filePath) \in {7, 8, 9}

\* the files ranked include a test file with a source extension and a test
\* path that is also a configuration file
C6_Witness ==
    /\ Prioritized
    /\ \E i \in 1..Len(summary.Files) :
           /\ MatchesTestPattern(summary.Files[i].Path)
           /\ HasSuffix(summary.Files[i].Path, ".go")
    /\ \E i \in 1..Len(summary.Files) :
           /\ MatchesTestPattern(summary.Files[i].Path)
           /\ HasSuffix(summary.Files[i].Path, ".json")

-----------------------------------------------------------------------------
(* pkg/types: SemanticVersion *)

VersionBumpPatch == "patch"
VersionBumpMinor == "minor"
VersionBumpMajor == "major"

PreReleaseAlpha == "alpha"
PreReleaseBeta  == "beta"
PreReleaseRC    == "rc"

Digits  == "0123456789"
Letters == "abcdefghijklmnopqrstuvwxyzABCDEFGHIJKLMNOPQRSTUVWXYZ"

IsDigit(c)  == \E i \in 1..Len(Digits) : CharAt(Digits, i) = c
IsLetter(c) == \E i \in 1..Len(Letters) : CharAt(Letters, i) = c

DigitValue(c) == (CHOOSE i \in 1..Len(Digits) : CharAt(Digits, i) = c) - 1

\* fmt.Sprintf("%d", n) for n >= 0
RECURSIVE Itoa(_)
Itoa(n) ==
    IF n < 10 THEN CharAt(Digits, n + 1)
    ELSE Itoa(n \div 10) \o CharAt(Digits, (n % 10) + 1)

\* strconv.Atoi of a string of digits (values within the range of int)
RECURSIVE AtoiFrom(_, _, _)
AtoiFrom(s, i, acc) ==
    IF i > Len(s) THEN acc ELSE AtoiFrom(s, i + 1, acc * 10 + DigitValue(CharAt(s, i)))

Atoi(s) == AtoiFrom(s, 1, 0)

SemanticVersion(major, minor, patch, preRelease, preNumber, raw) ==
    [Major |-> major, Minor |-> minor, Patch |-> patch,
     PreRelease |-> preRelease, PreNumber |-> preNumber, Raw |-> raw]

String_DropsPreNumberOne(sv) ==
    LET version == Itoa(sv.Major) \o "." \o Itoa(sv.Minor) \o "." \o Itoa(sv.Patch) IN
    IF sv.PreRelease # ""
    THEN IF sv.PreNumber > 1
         THEN version \o "-" \o sv.PreRelease \o "." \o Itoa(sv.PreNumber)
         ELSE version \o "-" \o sv.PreRelease
    ELSE version

\* SemanticVersion.String
String(sv) ==
    LET version == Itoa(sv.Major) \o "." \o Itoa(sv.Minor) \o "." \o Itoa(sv.Patch) IN
    IF sv.PreRelease # ""
    THEN IF sv.PreNumber > 0
         THEN version \o "-" \o sv.PreRelease \o "." \o Itoa(sv.PreNumber)
         ELSE version \o "-" \o sv.PreRelease
    ELSE version

\* SemanticVersion.TagName
TagName(sv) == "v" \o String(sv)

-----------------------------------------------------------------------------
(* The regular expression of ParseVersion and parseSemanticVersion:       *)
(*   ^(\d+)\.(\d+)\.(\d+)(?:-([a-zA-Z]+)(?:\.(\d+))?)?$                    *)

\* the end (exclusive) of the longest run of digits (\d+) starting at i
RECURSIVE DigitsEnd(_, _)
DigitsEnd(s, i) ==
    IF i <= Len(s) /\ IsDigit(CharAt(s, i)) THEN DigitsEnd(s, i + 1) ELSE i

\* the end (exclusive) of the longest run of letters ([a-zA-Z]+) starting at i
RECURSIVE LettersEnd(_, _)
LettersEnd(s, i) ==
    IF i <= Len(s) /\ IsLetter(CharAt(s, i)) THEN LettersEnd(s, i + 1) ELSE i

\* FindStringSubmatch: <<>> when the string does not match, otherwise the
\* whole match followed by the five groups ("" for a group that took no part)
FindStringSubmatch(s) ==
    LET e1 == DigitsEnd(s, 1)
        e2 == DigitsEnd(s, e1 + 1)
        e3 == DigitsEnd(s, e2 + 1)
        e4 == LettersEnd(s, e3 + 1)
        e5 == DigitsEnd(s, e4 + 1)
        core == /\ e1 > 1
                /\ CharAt(s, e1) = "." /\ e2 > e1 + 1
                /\ CharAt(s, e2) = "." /\ e3 > e2 + 1
        g1 == SubSeq(s, 1, e1 - 1)
        g2 == SubSeq(s, e1 + 1, e2 - 1)
        g3 == SubSeq(s, e2 + 1, e3 - 1)
    IN IF ~core THEN <<>>
       ELSE IF e3 > Len(s) THEN <<s, g1, g2, g3, "", "">>
       ELSE IF ~(CharAt(s, e3) = "-" /\ e4 > e3 + 1) THEN <<>>
       ELSE IF e4 > Len(s) THEN <<s, g1, g2, g3, SubSeq(s, e3 + 1, e4 - 1), "">>
       ELSE IF CharAt(s, e4) = "." /\ e5 > e4 + 1 /\ e5 > Len(s)
       THEN <<s, g1, g2, g3, SubSeq(s, e3 + 1, e4 - 1), SubSeq(s, e4 + 1, e5 - 1)>>
       ELSE <<>>

\* The version both parsers build from the submatches
VersionOfMatches(matches, versionStr) ==
    LET version == SemanticVersion(Atoi(matches[2]), Atoi(matches[3]),
                                   Atoi(matches[4]), "", 0, versionStr)
    IN IF Len(matches) > 4 /\ matches[5] # ""
       THEN [version EXCEPT
               !.PreRelease = matches[5],
               !.PreNumber = IF Len(matches) > 5 /\ matches[6] # ""
                             THEN Atoi(matches[6]) ELSE 0]
       ELSE version

\* internal/version: ParseVersion; [ok |-> FALSE] is the error return
ParseVersion(str) ==
    LET versionStr == TrimPrefix(str, "v")
        matches == FindStringSubmatch(versionStr)
    IN IF Len(matches) < 4 THEN [ok |-> FALSE]
       ELSE [ok |-> TRUE, version |-> VersionOfMatches(matches, versionStr)]

\* internal/git: parseSemanticVersion; [ok |-> FALSE] is the error return
parseSemanticVersion(tagName) ==
    LET versionStr == TrimPrefix(tagName, "v")
        matches == FindStringSubmatch(versionStr)
    IN IF Len(matches) < 4 THEN [ok |-> FALSE]
       ELSE [ok |-> TRUE, version |-> VersionOfMatches(matches, versionStr)]

\* GetTags: one GitTag per listed name, Version nil when the name does not parse
GetTags(names) ==
    [i \in 1..Len(names) |->
        LET r == parseSemanticVersion(names[i])
        IN [Name |-> names[i], Version |-> IF r.ok THEN r.version ELSE Nil]]

-----------------------------------------------------------------------------
(* internal/version/service.go *)

\* the order map of isVersionNewer; a key that is absent reads as 0
order(preRelease) ==
    CASE preRelease = PreReleaseAlpha -> 1
      [] preRelease = PreReleaseBeta  -> 2
      [] preRelease = PreReleaseRC    -> 3
      [] OTHER -> 0

isVersionNewer_ReleaseOlder(v1, v2) ==
    IF v1.Major # v2.Major THEN v1.Major > v2.Major
    ELSE IF v1.Minor # v2.Minor THEN v1.Minor > v2.Minor
    ELSE IF v1.Patch # v2.Patch THEN v1.Patch > v2.Patch
    ELSE IF v1.PreRelease = "" /\ v2.PreRelease # "" THEN FALSE
    ELSE IF v1.PreRelease # "" /\ v2.PreRelease = "" THEN TRUE
    ELSE IF v1.PreRelease # "" /\ v2.PreRelease # ""
    THEN IF v1.PreRelease # v2.PreRelease
         THEN order(v1.PreRelease) > order(v2.PreRelease)
         ELSE v1.PreNumber > v2.PreNumber
    ELSE FALSE

isVersionNewer(v1, v2) ==
    IF v1.Major # v2.Major THEN v1.Major > v2.Major
    ELSE IF v1.Minor # v2.Minor THEN v1.Minor > v2.Minor
    ELSE IF v1.Patch # v2.Patch THEN v1.Patch > v2.Patch
    ELSE IF v1.PreRelease = "" /\ v2.PreRelease # "" THEN TRUE
    ELSE IF v1.PreRelease # "" /\ v2.PreRelease = "" THEN FALSE
    ELSE IF v1.PreRelease # "" /\ v2.PreRelease # ""
    THEN IF v1.PreRelease # v2.PreRelease
         THEN order(v1.PreRelease) > order(v2.PreRelease)
         ELSE v1.PreNumber > v2.PreNumber
    ELSE FALSE

\* GetLatestVersion: the loop over tagList[i..]
RECURSIVE LatestFrom(_, _, _)
LatestFrom(tagList, i, latest) ==
    IF i > Len(tagList) THEN latest
    ELSE LET tag == tagList[i] IN
         IF tag.Version # Nil /\ (latest = Nil \/ isVersionNewer(tag.Version, latest))
         THEN LatestFrom(tagList, i + 1, tag.Version)
         ELSE LatestFrom(tagList, i + 1, latest)

GetLatestVersionOf_FirstListed(names) ==
    LET listed == GetTags(names)
        latest == IF Len(listed) > 0 THEN listed[1].Version ELSE Nil
    IN IF latest = Nil THEN SemanticVersion(0, 0, 0, "", 0, "0.0.0") ELSE latest

GetLatestVersionOf(names) ==
    LET latest == LatestFrom(GetTags(names), 1, Nil)
    IN IF latest = Nil THEN SemanticVersion(0, 0, 0, "", 0, "0.0.0") ELSE latest

CalculateNextVersion_MinorKeepsPatch(currentVersion, analysisArg, optionsArg) ==
    LET bumpType == IF optionsArg.ForceBump # "" THEN optionsArg.ForceBump
                    ELSE analysisArg.RecommendedBump
        bumped ==
            CASE bumpType = VersionBumpMajor ->
                   SemanticVersion(currentVersion.Major + 1, 0, 0, "", 0, "")
              [] bumpType = VersionBumpMinor ->
                   SemanticVersion(currentVersion.Major, currentVersion.Minor + 1,
                                   currentVersion.Patch, "", 0, "")
              [] bumpType = VersionBumpPatch ->
                   SemanticVersion(currentVersion.Major, currentVersion.Minor,
                                   currentVersion.Patch + 1, "", 0, "")
              [] OTHER ->
                   SemanticVersion(currentVersion.Major, currentVersion.Minor,
                                   currentVersion.Patch, "", 0, "")
        withPre == IF optionsArg.PreRelease # ""
                   THEN [bumped EXCEPT !.PreRelease = optionsArg.PreRelease,
                                       !.PreNumber = 1]
                   ELSE bumped
    IN [withPre EXCEPT !.Raw = String(withPre)]

CalculateNextVersion(currentVersion, analysisArg, optionsArg) ==
    LET bumpType == IF optionsArg.ForceBump # "" THEN optionsArg.ForceBump
                    ELSE analysisArg.RecommendedBump
        bumped ==
            CASE bumpType = VersionBumpMajor ->
                   SemanticVersion(currentVersion.Major + 1, 0, 0, "", 0, "")
              [] bumpType = VersionBumpMinor ->
                   SemanticVersion(currentVersion.Major, currentVersion.Minor + 1,
                                   0, "", 0, "")
              [] bumpType = VersionBumpPatch ->
                   SemanticVersion(currentVersion.Major, currentVersion.Minor,
                                   currentVersion.Patch + 1, "", 0, "")
              [] OTHER ->
                   SemanticVersion(currentVersion.Major, currentVersion.Minor,
                                   currentVersion.Patch, "", 0, "")
        withPre == IF optionsArg.PreRelease # ""
                   THEN [bumped EXCEPT !.PreRelease = optionsArg.PreRelease,
                                       !.PreNumber = 1]
                   ELSE bumped
    IN [withPre EXCEPT !.Raw = String(withPre)]

-----------------------------------------------------------------------------
(* Version run: tags exist in the repository, GetLatestVersion reads them, *)
(* CalculateNextVersion bumps, the result is rendered and parsed again     *)

\* Names of tags found in the repository
TagNames ==
    { "v1.0.0", "v1.0.0-alpha", "v1.0.0-alpha.2", "v1.0.0-beta.2", "v1.0.0-rc.1",
      "v0.9.9", "v1.0.0-dev", "v1.0.0-RC.1", "latest" }

Bumps       == {VersionBumpMajor, VersionBumpMinor, VersionBumpPatch}
PreReleases == {PreReleaseAlpha, PreReleaseBeta, PreReleaseRC}

InitVer ==
    /\ pc = "repo"
    /\ summary = Nil
    /\ ParseIdle
    /\ ProcIdle
    /\ VerIdle
    /\ TagIdle
    /\ ScopeIdle
    /\ MsgIdle
    /\ CtxIdle
    /\ LimIdle
    /\ RespIdle
    /\ GenIdle
    /\ ConcIdle

\* `git tag -l` lists one more tag; the listing order is git's, not the program's
ListTag ==
    /\ pc = "repo"
    /\ Len(tags) < MaxTags
    /\ \E name \in TagNames : tags' = Append(tags, name)
    /\ UNCHANGED <<pc, summary, latestVersion, analysis, options, nextVersion,
                   rendered, reparsed, parseVars, procVars, tagVars, scopeVars, msgVars, ctxVars, limVars, respVars, genVars, concVars>>

GetLatestVersion ==
    /\ pc = "repo"
    /\ latestVersion' = GetLatestVersionOf(tags)
    /\ pc' = "latest"
    /\ UNCHANGED <<summary, tags, analysis, options, nextVersion, rendered,
                   reparsed, parseVars, procVars, tagVars, scopeVars, msgVars, ctxVars, limVars, respVars, genVars, concVars>>

\* tagCmd: the analysis recommends a bump, the flags may force one and may
\* ask for a pre-release; CalculateNextVersion on the latest version
CalculateNext ==
    /\ pc = "latest"
    /\ \E recommended \in Bumps, force \in Bumps \cup {""},
          preRelease \in PreReleases \cup {""} :
         /\ analysis' = [RecommendedBump |-> recommended]
         /\ options' = [ForceBump |-> force, PreRelease |-> preRelease]
         /\ nextVersion' = CalculateNextVersion(latestVersion, analysis', options')
    /\ pc' = "next"
    /\ UNCHANGED <<summary, tags, latestVersion, rendered, reparsed,
                   parseVars, procVars, tagVars, scopeVars, msgVars, ctxVars, limVars, respVars, genVars, concVars>>

\* A version the program holds is rendered by String and by TagName and
\* each rendering is handed to ParseVersion
RenderAndParse ==
    /\ pc \in {"latest", "next"}
    /\ LET version == IF pc = "latest" THEN latestVersion ELSE nextVersion IN
         /\ rendered' = [version |-> version, String |-> String(version),
                         TagName |-> TagName(version)]
         /\ reparsed' = [String |-> ParseVersion(String(version)),
                         TagName |-> ParseVersion(TagName(version))]
    /\ pc' = "reparsed"
    /\ UNCHANGED <<summary, tags, latestVersion, analysis, options, nextVersion,
                   parseVars, procVars, tagVars, scopeVars, msgVars, ctxVars, limVars, respVars, genVars, concVars>>

NextVer == ListTag \/ GetLatestVersion \/ CalculateNext \/ RenderAndParse

SpecVer == InitVer /\ [][NextVer]_vars

-----------------------------------------------------------------------------
(* Properties of the semantic-version engine *)

Tuple(v) == <<v.Major, v.Minor, v.Patch, v.PreRelease, v.PreNumber>>

\* a valid semantic version: a release, or an alpha, beta or rc pre-release
\* with its number
ValidVersion(v) ==
    /\ v # Nil
    /\ v.Major >= 0 /\ v.Minor >= 0 /\ v.Patch >= 0 /\ v.PreNumber >= 0
    /\ v.PreRelease \in {"", "alpha", "beta", "rc"}
    /\ v.PreRelease = "" => v.PreNumber = 0

\* the versions of the listed tags that parse
ParsedTagVersions ==
    { parseSemanticVersion(tags[i]).version :
        i \in { j \in 1..Len(tags) : parseSemanticVersion(tags[j]).ok } }

\* the valid versions the run holds: those of the tags, the latest, the next
KnownVersions ==
    { v \in ParsedTagVersions \cup {latestVersion, nextVersion} : ValidVersion(v) }

\* rank of the pre-release part: a release above rc above beta above alpha
PreRank(v) ==
    CASE v.PreRelease = "" -> 4 [] v.PreRelease = "rc" -> 3
      [] v.PreRelease = "beta" -> 2 [] v.PreRelease = "alpha" -> 1

\* v1 after v2 comparing major, minor, patch, pre-release rank, preNumber
After(v1, v2) ==
    \/ v1.Major > v2.Major
    \/ v1.Major = v2.Major /\ v1.Minor > v2.Minor
    \/ v1.Major = v2.Major /\ v1.Minor = v2.Minor /\ v1.Patch > v2.Patch
    \/ /\ v1.Major = v2.Major /\ v1.Minor = v2.Minor /\ v1.Patch = v2.Patch
       /\ \/ PreRank(v1) > PreRank(v2)
          \/ PreRank(v1) = PreRank(v2) /\ v1.PreNumber > v2.PreNumber

\* C7: on valid semantic versions isVersionNewer is a strict total order
\* (irreflexive, transitive, exactly one of two versions with different
\* tuples is newer) that compares major, minor, patch, then release above
\* pre-release, then alpha < beta < rc, then preNumber.
C7_StrictTotalOrder ==
    pc \in {"latest", "next"} =>
        LET known == KnownVersions IN
        /\ \A a, b \in known :
              /\ ~isVersionNewer(a, a)
              /\ Tuple(a) # Tuple(b) => (isVersionNewer(a, b) # isVersionNewer(b, a))
              /\ Tuple(a) = Tuple(b) => (~isVersionNewer(a, b) /\ ~isVersionNewer(b, a))
              /\ isVersionNewer(a, b) <=> After(a, b)
        /\ \A a, b, c \in known :
              (isVersionNewer(a, b) /\ isVersionNewer(b, c)) => isVersionNewer(a, c)

\* GetLatestVersion has compared a beta and an rc pre-release of one
\* major.minor.patch and the next version has been computed from the rc
C7_Witness ==
    /\ pc = "next"
    /\ \E a, b \in KnownVersions :
          /\ <<a.Major, a.Minor, a.Patch>> = <<b.Major, b.Minor, b.Patch>>
          /\ a.PreRelease = "rc"
          /\ b.PreRelease = "beta"
          /\ latestVersion = a
          /\ isVersionNewer(nextVersion, a)

SameVersion(parsed, v) == parsed.ok /\ Tuple(parsed.version) = Tuple(v)

\* C8: for every valid version v, ParseVersion(v.String()) and
\* ParseVersion(v.TagName()) succeed and return v's major, minor, patch,
\* preRelease and preNumber.
C8_RoundTrip ==
    (pc = "reparsed" /\ ValidVersion(rendered.version)) =>
        /\ SameVersion(reparsed.String, rendered.version)
        /\ SameVersion(reparsed.TagName, rendered.version)
        /\ rendered.TagName = "v" \o rendered.String

\* a pre-release with number 1 and a two-digit component has made the round trip
C8_Witness ==
    /\ pc = "reparsed"
    /\ ValidVersion(rendered.version)
    /\ rendered.version.PreRelease # ""
    /\ rendered.version.PreNumber = 1
    /\ rendered.version.Minor >= 10 \/ rendered.version.Patch >= 10

\* C9: GetLatestVersion returns the maximum under the version ordering of
\* the versions of all tags that parse, whatever the listing order; when no
\* tag parses it returns 0.0.0.
C9_LatestIsMaximum ==
    pc = "latest" =>
        IF ParsedTagVersions = {}
        THEN Tuple(latestVersion) = <<0, 0, 0, "", 0>>
        ELSE /\ latestVersion \in ParsedTagVersions
             /\ \A v \in ParsedTagVersions :
                    Tuple(v) = Tuple(latestVersion) \/ isVersionNewer(latestVersion, v)

AppliedBump == IF options.ForceBump # "" THEN options.ForceBump ELSE analysis.RecommendedBump

\* C10: CalculateNextVersion applies ForceBump when given, else the
\* RecommendedBump: major gives (major+1, 0, 0), minor (major, minor+1, 0),
\* patch (major, minor, patch+1); a requested pre-release sets that kind with
\* preNumber 1, and without one the result carries no pre-release.
C10_NextVersion ==
    pc = "next" =>
        LET cur == latestVersion
            triple == <<nextVersion.Major, nextVersion.Minor, nextVersion.Patch>>
        IN /\ AppliedBump = "major" => triple = <<cur.Major + 1, 0, 0>>
           /\ AppliedBump = "minor" => triple = <<cur.Major, cur.Minor + 1, 0>>
           /\ AppliedBump = "patch" => triple = <<cur.Major, cur.Minor, cur.Patch + 1>>
           /\ options.PreRelease # "" =>
                  /\ nextVersion.PreRelease = options.PreRelease
                  /\ nextVersion.PreNumber = 1
           /\ options.PreRelease = "" =>
                  /\ nextVersion.PreRelease = ""
                  /\ nextVersion.PreNumber = 0

\* a forced minor bump has overridden a different recommendation on a
\* pre-release version with a non-zero patch, with a pre-release requested
C10_Witness ==
    /\ pc = "next"
    /\ options.ForceBump = "minor"
    /\ analysis.RecommendedBump = "major"
    /\ options.PreRelease = "beta"
    /\ latestVersion.Patch > 0
    /\ nextVersion.Patch = 0

-----------------------------------------------------------------------------
(* cmd/git-generator: the tag command *)

\* What cmd.Run() returns for a child process: it exited with a status
\* (*exec.ExitError when the status is not 0), or it could not be started
Exited(code) == [exited |-> TRUE, code |-> code]
NotStarted == [exited |-> FALSE, code |-> 0]

\* `git diff --quiet`: status 1 when there are differences and 0 when there
\* are none; git's fatal errors exit with 128, a child killed by a signal
\* has ExitCode() -1, and the binary may fail to start
DiffQuietOutcomes(hasChanges) ==
    { Exited(IF hasChanges THEN 1 ELSE 0), Exited(128), Exited(-1), NotStarted }

HasStagedChanges(run) ==
    IF run = Exited(0) THEN [has |-> FALSE, err |-> ""]
    ELSE IF run.exited /\ run.code = 1 THEN [has |-> TRUE, err |-> ""]
    ELSE [has |-> FALSE, err |-> "failed to check staged changes"]

HasUnstagedChanges(run) ==
    IF run = Exited(0) THEN [has |-> FALSE, err |-> ""]
    ELSE IF run.exited THEN [has |-> run.code = 1, err |-> ""]
    ELSE [has |-> FALSE, err |-> "failed to check unstaged changes"]

\* the error ValidateRepositoryState returns, "" for nil
ValidateRepositoryState(isRepo, stagedRun, unstagedRun) ==
    LET staged == HasStagedChanges(stagedRun)
        unstaged == HasUnstagedChanges(unstagedRun)
    IN IF ~isRepo THEN "not in a Git repository"
       ELSE IF staged.err # "" THEN "failed to check staged changes"
       ELSE IF unstaged.err # "" THEN "failed to check unstaged changes"
       ELSE IF staged.has \/ unstaged.has THEN "repository has uncommitted changes"
       ELSE ""

\* the --type flag: the bump it forces, "invalid" when it names none
ParseTypeFlag(forceBump) ==
    IF forceBump = "" THEN ""
    ELSE IF ToLower(forceBump) \in {"major", "minor", "patch"} THEN ToLower(forceBump)
    ELSE "invalid"

\* the --pre-release flag
ParsePreReleaseFlag(preRelease) ==
    IF preRelease = "" THEN ""
    ELSE IF ToLower(preRelease) \in {"alpha", "beta", "rc"} THEN ToLower(preRelease)
    ELSE "invalid"

\* Tag lists of the repositories the command is run in
TagRepos == { <<>>, <<"v1.0.0">>, <<"v1.0.0-rc.1", "v0.9.9">> }

GitStates ==
    { g \in [isRepo : BOOLEAN, staged : BOOLEAN, unstaged : BOOLEAN] :
        ~g.isRepo => (~g.staged /\ ~g.unstaged) }

TagFlags ==
    [apiKey : {"", "key"}, dryRun : BOOLEAN, type : {"", "Minor", "huge"},
     preRelease : {"", "rc", "gamma"}]

InitTag ==
    /\ pc = "tag"
    /\ summary = Nil
    /\ ParseIdle
    /\ ProcIdle
    /\ tags \in TagRepos
    /\ latestVersion = Nil
    /\ analysis = Nil
    /\ options = Nil
    /\ nextVersion = Nil
    /\ rendered = Nil
    /\ reparsed = Nil
    /\ gitState \in GitStates
    /\ flags \in TagFlags
    /\ tagRun = [validated |-> "", analysed |-> FALSE, created |-> <<>>, err |-> "",
                 stagedRun |-> Nil, unstagedRun |-> Nil]
    /\ ScopeIdle
    /\ MsgIdle
    /\ CtxIdle
    /\ LimIdle
    /\ RespIdle
    /\ GenIdle
    /\ ConcIdle

\* tagCmd: the services are initialised; without an API key, or when the AI
\* client cannot be built, the command returns an error
TagInitServices ==
    /\ pc = "tag"
    /\ \E clientErr \in BOOLEAN :
         IF flags.apiKey = ""
         THEN /\ tagRun' = [tagRun EXCEPT !.err = "gemini API key is required"]
              /\ pc' = "exit"
         ELSE IF clientErr
         THEN /\ tagRun' = [tagRun EXCEPT !.err = "failed to initialize AI client"]
              /\ pc' = "exit"
         ELSE /\ tagRun' = tagRun
              /\ pc' = "services"
    /\ UNCHANGED <<summary, parseVars, procVars, verVars, gitState, flags, scopeVars, msgVars, ctxVars, limVars, respVars, genVars, concVars>>

\* tagCmd: versionService.ValidateRepositoryState()
TagValidate ==
    /\ pc = "services"
    /\ \E stagedRun \in DiffQuietOutcomes(gitState.staged),
          unstagedRun \in DiffQuietOutcomes(gitState.unstaged) :
         LET err == ValidateRepositoryState(gitState.isRepo, stagedRun, unstagedRun) IN
           /\ tagRun' = [tagRun EXCEPT
                  !.validated = IF err = "" THEN "ok" ELSE "error",
                  !.err = err,
                  !.stagedRun = IF gitState.isRepo THEN stagedRun ELSE Nil,
                  !.unstagedRun = IF gitState.isRepo /\ HasStagedChanges(stagedRun).err = ""
                                  THEN unstagedRun ELSE Nil]
           /\ pc' = IF err = "" THEN "clean" ELSE "exit"
    /\ UNCHANGED <<summary, parseVars, procVars, verVars, gitState, flags, scopeVars, msgVars, ctxVars, limVars, respVars, genVars, concVars>>

\* tagCmd: versionService.GetLatestVersion(); listing the tags may fail
TagGetLatestVersion ==
    /\ pc = "clean"
    /\ \E listErr \in BOOLEAN :
         IF listErr
         THEN /\ tagRun' = [tagRun EXCEPT !.err = "failed to get tags"]
              /\ latestVersion' = latestVersion
              /\ pc' = "exit"
         ELSE /\ tagRun' = tagRun
              /\ latestVersion' = GetLatestVersionOf(tags)
              /\ pc' = "current"
    /\ UNCHANGED <<summary, parseVars, procVars, tags, analysis, options,
                   nextVersion, rendered, reparsed, gitState, flags, scopeVars, msgVars, ctxVars, limVars, respVars, genVars, concVars>>

\* tagCmd: versionService.AnalyzeChangesForVersioning(ctx, true); the
\* recommendation is the AI's, or the analysis fails
TagAnalyze ==
    /\ pc = "current"
    /\ \E outcome \in Bumps \cup {"error"} :
         IF outcome = "error"
         THEN /\ tagRun' = [tagRun EXCEPT !.analysed = TRUE,
                                          !.err = "failed to analyze changes"]
              /\ analysis' = analysis
              /\ pc' = "exit"
         ELSE /\ tagRun' = [tagRun EXCEPT !.analysed = TRUE]
              /\ analysis' = [RecommendedBump |-> outcome]
              /\ pc' = "analysed"
    /\ UNCHANGED <<summary, parseVars, procVars, tags, latestVersion, options,
                   nextVersion, rendered, reparsed, gitState, flags, scopeVars, msgVars, ctxVars, limVars, respVars, genVars, concVars>>

\* tagCmd: the tagging options are built from the flags, the next version
\* is calculated, and a dry run ends here
TagCalculateNext ==
    /\ pc = "analysed"
    /\ LET force == ParseTypeFlag(flags.type)
           pre == ParsePreReleaseFlag(flags.preRelease)
       IN IF force = "invalid"
          THEN /\ tagRun' = [tagRun EXCEPT !.err = "invalid bump type"]
               /\ options' = options
               /\ nextVersion' = nextVersion
               /\ pc' = "exit"
          ELSE IF pre = "invalid"
          THEN /\ tagRun' = [tagRun EXCEPT !.err = "invalid pre-release type"]
               /\ options' = options
               /\ nextVersion' = nextVersion
               /\ pc' = "exit"
          ELSE /\ tagRun' = tagRun
               /\ options' = [ForceBump |-> force, PreRelease |-> pre,
                               DryRun |-> flags.dryRun]
               /\ nextVersion' = CalculateNextVersion(latestVersion, analysis, options')
               /\ pc' = IF flags.dryRun THEN "exit" ELSE "next"
    /\ UNCHANGED <<summary, parseVars, procVars, tags, latestVersion, analysis,
                   rendered, reparsed, gitState, flags, scopeVars, msgVars, ctxVars, limVars, respVars, genVars, concVars>>

\* tagCmd: versionService.CreateTag; `git tag` refuses a name that exists
\* and may fail for other reasons
TagCreate ==
    /\ pc = "next"
    /\ \E gitErr \in BOOLEAN :
         LET tagName == TagName(nextVersion)
             exists == \E i \in 1..Len(tags) : tags[i] = tagName
         IN IF exists \/ gitErr
            THEN /\ tagRun' = [tagRun EXCEPT !.err = "failed to create tag"]
                 /\ tags' = tags
            ELSE /\ tagRun' = [tagRun EXCEPT !.created = Append(@, tagName)]
                 /\ tags' = Append(tags, tagName)
    /\ pc' = "exit"
    /\ UNCHANGED <<summary, parseVars, procVars, latestVersion, analysis, options,
                   nextVersion, rendered, reparsed, gitState, flags, scopeVars, msgVars, ctxVars, limVars, respVars, genVars, concVars>>

NextTag ==
    \/ TagInitServices
    \/ TagValidate
    \/ TagGetLatestVersion
    \/ TagAnalyze
    \/ TagCalculateNext
    \/ TagCreate

SpecTag == InitTag /\ [][NextTag]_vars

-----------------------------------------------------------------------------
(* Properties of the tag command *)

\* C11: analysing changes and creating a tag happen only after
\* ValidateRepositoryState succeeded, and whenever staged or unstaged
\* changes are present ValidateRepositoryState returns an error and the run
\* neither analyses changes nor creates a tag
C11_DirtyTreeNeverTagged ==
    /\ (tagRun.analysed \/ tagRun.created # <<>>) => tagRun.validated = "ok"
    /\ (tagRun.validated # "" /\ (gitState.staged \/ gitState.unstaged)) =>
          /\ tagRun.validated = "error"
          /\ ~tagRun.analysed
          /\ tagRun.created = <<>>

-----------------------------------------------------------------------------
(* internal/scope: the scope detector *)

\* A rule pattern. The patterns of the rules are anchored alternations: the
\* path starts with one of the literals (kind "prefix"), ends with one
\* ("suffix"), is one ("exact"), or starts with a literal followed by one
\* non-empty path segment and a slash ("segment", `^lit([^/]+)/`). Each
\* alternative carries what its first capture group holds; groups is the
\* number of capture groups. A pattern regexp.Compile rejects has kind
\* "invalid".
Pattern(kind, alts, groups) == [kind |-> kind, alts |-> alts, groups |-> groups]

Alt(text, g1) == [text |-> text, g1 |-> g1]

\* `^(src/|app/)?(name|...)/`: the first group is the optional directory
SrcAppDirs(names) ==
    Pattern("prefix", { Alt(p \o n \o "/", p) : p \in {"", "src/", "app/"}, n \in names }, 2)

\* `^(name|...)/`
Dirs(names) == Pattern("prefix", { Alt(n \o "/", n) : n \in names }, 1)

\* `\.(ext|...)$`
Exts(exts) == Pattern("suffix", { Alt("." \o e, e) : e \in exts }, 1)

\* `^(name|...)$`
Names(names) == Pattern("exact", { Alt(n, n) : n \in names }, 1)

\* `^lit` and `^lit$`, without groups
Prefix(literal) == Pattern("prefix", { Alt(literal, "") }, 0)
Exact(literal) == Pattern("exact", { Alt(literal, "") }, 0)

\* `^dir/([^/]+)/`
Segment(dir) == Pattern("segment", { Alt(dir \o "/", "") }, 1)

InvalidPattern == Pattern("invalid", {}, 0)

ScopeDetectionRule(pattern, scope, priority) ==
    [Pattern |-> pattern, Scope |-> scope, Priority |-> priority]

\* index of the first occurrence of the character c in s from i on, 0 if none
RECURSIVE IndexFrom(_, _, _)
IndexFrom(s, c, i) ==
    IF i > Len(s) THEN 0
    ELSE IF CharAt(s, i) = c THEN i
    ELSE IndexFrom(s, c, i + 1)

\* re.FindStringSubmatch(filePath) for a compiled pattern: <<>> when there is
\* no match, else the match followed by the capture groups (the first group
\* is modelled, further groups are left empty)
FindSubmatch(pattern, filePath) ==
    LET matching ==
            { a \in pattern.alts :
                CASE pattern.kind = "prefix" -> HasPrefix(filePath, a.text)
                  [] pattern.kind = "suffix" -> HasSuffix(filePath, a.text)
                  [] pattern.kind = "exact" -> filePath = a.text
                  [] pattern.kind = "segment" ->
                       /\ HasPrefix(filePath, a.text)
                       /\ IndexFrom(filePath, "/", Len(a.text) + 1) > Len(a.text) + 1
                  [] OTHER -> FALSE }
    IN IF matching = {} THEN <<>>
       ELSE LET a == CHOOSE m \in matching : \A o \in matching : Len(m.text) >= Len(o.text)
                g1 == IF pattern.kind = "segment"
                      THEN SubSeq(filePath, Len(a.text) + 1,
                                  IndexFrom(filePath, "/", Len(a.text) + 1) - 1)
                      ELSE a.g1
            IN <<a.text>> \o (IF pattern.groups >= 1 THEN <<g1>> ELSE <<>>)
                          \o [i \in 1..(pattern.groups - 1) |-> ""]

\* strings.ReplaceAll
RECURSIVE ReplaceAll(_, _, _)
ReplaceAll(s, old, new) ==
    IF s = "" THEN ""
    ELSE IF old # "" /\ HasPrefix(s, old) THEN new \o ReplaceAll(From(s, Len(old) + 1), old, new)
    ELSE CharAt(s, 1) \o ReplaceAll(From(s, 2), old, new)

getDefaultScopeRules ==
    << ScopeDetectionRule(Segment("cmd"), "cmd", 95),
       ScopeDetectionRule(Segment("internal"), "$1", 90),
       ScopeDetectionRule(Segment("pkg"), "$1", 90),
       ScopeDetectionRule(Exts({"js", "jsx", "ts", "tsx", "vue", "svelte", "html",
                                "css", "scss", "sass", "less"}), "ui", 80),
       ScopeDetectionRule(SrcAppDirs({"component", "components"}), "ui", 85),
       ScopeDetectionRule(SrcAppDirs({"page", "pages"}), "ui", 85),
       ScopeDetectionRule(SrcAppDirs({"api", "route", "routes", "controller",
                                      "controllers", "handler", "handlers"}), "api", 90),
       ScopeDetectionRule(SrcAppDirs({"middleware"}), "api", 85),
       ScopeDetectionRule(SrcAppDirs({"model", "models", "entitie", "entities",
                                      "schema", "schemas"}), "db", 90),
       ScopeDetectionRule(SrcAppDirs({"migration", "migrations", "seed", "seeds"}), "db", 95),
       ScopeDetectionRule(Exts({"sql", "migration"}), "db", 90),
       ScopeDetectionRule(SrcAppDirs({"auth", "security"}), "auth", 90),
       ScopeDetectionRule(Dirs({"config", "configs"}), "config", 95),
       ScopeDetectionRule(Exts({"env", "config", "conf", "ini", "yaml", "yml",
                                "toml", "json"}), "config", 85),
       ScopeDetectionRule(Prefix(".env"), "config", 90),
       ScopeDetectionRule(Dirs({"test", "tests", "spec", "specs"}), "test", 95),
       ScopeDetectionRule(
           Pattern("suffix",
                   { Alt("." \o t \o "." \o e, t) :
                       t \in {"test", "spec"},
                       e \in {"js", "jsx", "ts", "tsx", "go", "py", "rb", "java", "php"} },
                   2), "test", 90),
       ScopeDetectionRule(Pattern("suffix", { Alt("_test.go", "go"), Alt("_test.rs", "rs") }, 1),
                          "test", 90),
       ScopeDetectionRule(Dirs({"doc", "docs", "documentation"}), "docs", 95),
       ScopeDetectionRule(Exts({"md", "rst", "txt", "adoc"}), "docs", 80),
       ScopeDetectionRule(Prefix("README"), "docs", 85),
       ScopeDetectionRule(Prefix(".github/workflows/"), "ci", 95),
       ScopeDetectionRule(Exact(".gitlab-ci.yml"), "ci", 95),
       ScopeDetectionRule(Names({"Dockerfile", "docker-compose.yml", ".dockerignore"}), "ci", 90),
       ScopeDetectionRule(Names({"Makefile", "Jenkinsfile"}), "ci", 90),
       ScopeDetectionRule(Names({"package.json", "yarn.lock", "package-lock.json", "go.mod",
                                 "go.sum", "Cargo.toml", "Cargo.lock", "requirements.txt",
                                 "Pipfile", "composer.json"}), "deps", 85),
       ScopeDetectionRule(SrcAppDirs({"util", "utils", "helper", "helpers", "lib", "libs"}),
                          "utils", 80),
       ScopeDetectionRule(SrcAppDirs({"service", "services"}), "service", 85),
       ScopeDetectionRule(SrcAppDirs({"core", "internal"}), "core", 85) >>


\* where rule goes in a slice already ordered by descending priority: behind
\* every rule whose priority is not lower
RECURSIVE InsertRule(_, _)
InsertRule(sorted, rule) ==
    IF sorted = <<>> THEN <<rule>>
    ELSE IF sorted[1].Priority >= rule.Priority
         THEN <<sorted[1]>> \o InsertRule(Tail(sorted), rule)
         ELSE <<rule>> \o sorted

RECURSIVE StableByPriority(_)
StableByPriority(rules) ==
    IF rules = <<>> THEN <<>>
    ELSE InsertRule(StableByPriority(SubSeq(rules, 1, Len(rules) - 1)), rules[Len(rules)])

Reverse(s) == [i \in 1..Len(s) |-> s[Len(s) + 1 - i]]

\* sort.Slice(rules, Priority descending). The sort is not stable: rules of
\* equal priority may come out in any order. Two arrangements are kept, the
\* one that leaves equal priorities in their order and the one that
\* reverses them
SortByPriority(rules) ==
    { StableByPriority(rules), StableByPriority(Reverse(rules)) }

\* the scope a matching rule gives: `$1` in the rule's scope is replaced by
\* the first capture group
ScopeOfMatch(rule, matches) ==
    IF Len(matches) > 1 /\ Contains(rule.Scope, "$1")
    THEN ReplaceAll(rule.Scope, "$1", matches[2])
    ELSE rule.Scope

RECURSIVE detectFrom(_, _, _)
detectFrom(rules, filePath, i) ==
    IF i > Len(rules) THEN [scope |-> "", priority |-> 0]
    ELSE LET matches == FindSubmatch(rules[i].Pattern, filePath)
         IN IF Len(matches) > 0
            THEN [scope |-> ScopeOfMatch(rules[i], matches), priority |-> rules[i].Priority]
            ELSE detectFrom(rules, filePath, i + 1)

detectScopeForFileWithPriority(rules, filePath) == detectFrom(rules, filePath, 1)

isHighPriorityScope(scope) ==
    scope \in {"auth", "api", "db", "security", "core", "config", "ci",
               "user", "payment", "order", "notification", "admin"}

\* the loop over scopeCounts: the scope taken so far is replaced by one with
\* a higher count, or with the same count and a higher priority
RECURSIVE BestScopeFrom(_, _, _, _, _)
BestScopeFrom(visited, scopeCounts, scopePriorities, i, best) ==
    IF i > Len(visited) THEN best
    ELSE LET scope == visited[i]
             count == scopeCounts[scope]
             priority == scopePriorities[scope]
         IN BestScopeFrom(visited, scopeCounts, scopePriorities, i + 1,
                IF count > best.maxCount
                   \/ (count = best.maxCount /\ priority > best.bestPriority)
                THEN [bestScope |-> scope, maxCount |-> count, bestPriority |-> priority]
                ELSE best)

\* the orders in which a range over a map with these keys may visit them
MapOrders(keys) ==
    LET n == Cardinality(keys)
    IN { o \in [1..n -> keys] : \A i, j \in 1..n : i # j => o[i] # o[j] }

DecideScope_CoverageOverHalf(best, totalFiles) ==
    IF totalFiles = 1 /\ best.bestScope # "" THEN best.bestScope
    ELSE IF 2 * best.maxCount > totalFiles THEN best.bestScope
    ELSE IF best.maxCount >= 2 /\ isHighPriorityScope(best.bestScope) THEN best.bestScope
    ELSE ""

\* DetectScope, from the best scope on: a single file, then the coverage of
\* at least 0.5, then a dominant high-priority scope
DecideScope(best, totalFiles) ==
    IF totalFiles = 1 /\ best.bestScope # "" THEN best.bestScope
    ELSE IF 2 * best.maxCount >= totalFiles THEN best.bestScope
    ELSE IF best.maxCount >= 2 /\ isHighPriorityScope(best.bestScope) THEN best.bestScope
    ELSE ""

\* DetectScope after its loop over the files, detected holding what
\* detectScopeForFileWithPriority returned for each of them: what it may
\* return; the iteration order of the scopeCounts map is not fixed
DetectScopeFrom(detected) ==
    LET totalFiles == Len(detected)
        scopes == { detected[i].scope : i \in 1..totalFiles } \ {""}
        scopeCounts == [s \in scopes |->
                          Cardinality({ i \in 1..totalFiles : detected[i].scope = s })]
        scopePriorities ==
            [s \in scopes |->
                CHOOSE p \in { detected[i].priority : i \in 1..totalFiles } :
                    /\ \E i \in 1..totalFiles :
                          detected[i].scope = s /\ detected[i].priority = p
                    /\ \A i \in 1..totalFiles :
                          detected[i].scope = s => detected[i].priority <= p]
    IN IF totalFiles = 0 \/ scopes = {} THEN {""}
       ELSE { DecideScope(BestScopeFrom(visited, scopeCounts, scopePriorities, 1,
                              [bestScope |-> "", maxCount |-> 0, bestPriority |-> 0]),
                          totalFiles) :
                visited \in MapOrders(scopes) }

DetectScope(rules, filePaths) ==
    DetectScopeFrom([i \in 1..Len(filePaths) |->
                        detectScopeForFileWithPriority(rules, filePaths[i])])

-----------------------------------------------------------------------------
(* A detector is built, custom rules are added, a diff is classified *)

MaxScopeFiles == 5
MaxCustomRules == 1

\* Paths of the files of a diff, in the order git lists them
ScopePaths ==
    << "README.md", "config/app.js", "config/app.yaml",
       "internal/ai/client.go", "main.go", "src/api/a.go", "src/api/b.go",
       "src/components/Button.tsx" >>

\* the entries of a list at the given indices, in the order of the list
RECURSIVE PickAt(_, _, _)
PickAt(list, indices, i) ==
    IF i > Len(list) THEN <<>>
    ELSE (IF i \in indices THEN <<list[i]>> ELSE <<>>) \o PickAt(list, indices, i + 1)

\* the files of a diff: some of the paths
ScopeInputs ==
    { indices \in SUBSET (1..Len(ScopePaths)) : Cardinality(indices) <= MaxScopeFiles }

CustomRules ==
    { ScopeDetectionRule(Prefix("config/"), "settings", 100),
      ScopeDetectionRule(Segment("src"), "$1", 90),
      ScopeDetectionRule(InvalidPattern, "bad", 99),
      ScopeDetectionRule(Exts({"go"}), "go", 10) }

\* rule slices handed to NewDetectorWithRules
RuleLists ==
    { <<>>,
      << ScopeDetectionRule(Exts({"go"}), "go", 10),
         ScopeDetectionRule(Prefix("config/"), "settings", 100) >>,
      << ScopeDetectionRule(Segment("src"), "$1", 90),
         ScopeDetectionRule(InvalidPattern, "bad", 99),
         ScopeDetectionRule(SrcAppDirs({"api"}), "api", 90) >> }

InitScope ==
    /\ pc = "scope"
    /\ summary = Nil
    /\ ParseIdle
    /\ ProcIdle
    /\ VerIdle
    /\ TagIdle
    /\ ScopeIdle
    /\ MsgIdle
    /\ CtxIdle
    /\ LimIdle
    /\ RespIdle
    /\ GenIdle
    /\ ConcIdle

NewDetector ==
    /\ pc = "scope"
    /\ detector' = [rules |-> getDefaultScopeRules, added |-> 0]
    /\ pc' = "detector"
    /\ UNCHANGED <<summary, parseVars, procVars, verVars, tagVars, detection, msgVars, ctxVars, limVars, respVars, genVars, concVars>>

NewDetectorWithRules ==
    /\ pc = "scope"
    /\ \E rules \in RuleLists :
         \E sorted \in SortByPriority(rules) :
             detector' = [rules |-> sorted, added |-> 0]
    /\ pc' = "detector"
    /\ UNCHANGED <<summary, parseVars, procVars, verVars, tagVars, detection, msgVars, ctxVars, limVars, respVars, genVars, concVars>>

AddCustomRule ==
    /\ pc = "detector"
    /\ detector.added < MaxCustomRules
    /\ \E rule \in CustomRules :
         \E sorted \in SortByPriority(Append(detector.rules, rule)) :
             detector' = [rules |-> sorted, added |-> detector.added + 1]
    /\ UNCHANGED <<pc, summary, parseVars, procVars, verVars, tagVars, detection, msgVars, ctxVars, limVars, respVars, genVars, concVars>>

DetectScopeOfDiff ==
    /\ pc = "detector"
    /\ LET byPath == [i \in 1..Len(ScopePaths) |->
                        detectScopeForFileWithPriority(detector.rules, ScopePaths[i])]
       IN \E indices \in ScopeInputs :
            \E scope \in DetectScopeFrom(PickAt(byPath, indices, 1)) :
                detection' = [files |-> PickAt(ScopePaths, indices, 1),
                              detected |-> PickAt(byPath, indices, 1),
                              scope |-> scope]
    /\ pc' = "detected"
    /\ UNCHANGED <<summary, parseVars, procVars, verVars, tagVars, detector, msgVars, ctxVars, limVars, respVars, genVars, concVars>>

NextScope == NewDetector \/ NewDetectorWithRules \/ AddCustomRule \/ DetectScopeOfDiff

SpecScope == InitScope /\ [][NextScope]_vars

-----------------------------------------------------------------------------
(* Properties of the scope detector *)

MatchingRules(rules, filePath) ==
    { i \in 1..Len(rules) : Len(FindSubmatch(rules[i].Pattern, filePath)) > 0 }

\* C12: the scope detected for each file comes from a matching rule above
\* which no matching rule has a strictly higher priority, and a file no rule
\* matches gets no scope
C12_HighestPriorityRuleWins ==
    pc = "detected" =>
        \A f \in 1..Len(detection.files) :
            LET filePath == detection.files[f]
                matching == MatchingRules(detector.rules, filePath)
                got == detection.detected[f]
            IN IF matching = {} THEN got.scope = ""
               ELSE \E i \in matching :
                      /\ got.scope = ScopeOfMatch(detector.rules[i],
                                         FindSubmatch(detector.rules[i].Pattern, filePath))
                      /\ \A j \in matching :
                            detector.rules[j].Priority <= detector.rules[i].Priority


\* number of files whose detected scope is s, and the highest priority
\* among the rules that gave s
FilesOfScope(s) ==
    Cardinality({ i \in 1..Len(detection.detected) : detection.detected[i].scope = s })

PriorityOfScope(s) ==
    CHOOSE p \in { detection.detected[i].priority : i \in 1..Len(detection.detected) } :
        /\ \E i \in 1..Len(detection.detected) :
              detection.detected[i].scope = s /\ detection.detected[i].priority = p
        /\ \A i \in 1..Len(detection.detected) :
              detection.detected[i].scope = s => detection.detected[i].priority <= p

DetectedScopes == { detection.detected[i].scope : i \in 1..Len(detection.detected) } \ {""}

\* the scopes with the most files, and among those the ones with the
\* highest rule priority
ModalScopes ==
    { s \in DetectedScopes :
        \A t \in DetectedScopes :
            \/ FilesOfScope(t) < FilesOfScope(s)
            \/ FilesOfScope(t) = FilesOfScope(s) /\ PriorityOfScope(t) <= PriorityOfScope(s) }

HighPriorityAllowList ==
    {"auth", "api", "db", "security", "core", "config", "ci",
     "user", "payment", "order", "notification", "admin"}

-----------------------------------------------------------------------------
(* internal/validation: the commit message validator *)

LowerLetters == "abcdefghijklmnopqrstuvwxyz"
UpperLetters == "ABCDEFGHIJKLMNOPQRSTUVWXYZ"

IsLower(c) == \E i \in 1..26 : CharAt(LowerLetters, i) = c
IsUpper(c) == \E i \in 1..26 : CharAt(UpperLetters, i) = c

ToUpperChar(c) ==
    IF IsLower(c) THEN CharAt(UpperLetters, CHOOSE i \in 1..26 : CharAt(LowerLetters, i) = c)
    ELSE c

TrimSuffix(s, suffix) ==
    IF HasSuffix(s, suffix) THEN SubSeq(s, 1, Len(s) - Len(suffix)) ELSE s

IsWhite(c) == c \in {" ", "\t", "\n", "\r"}

\* strings.TrimSpace(s) = ""
IsBlank(s) == \A i \in 1..Len(s) : IsWhite(CharAt(s, i))

\* strings.Join
RECURSIVE Join(_, _)
Join(words, sep) ==
    IF Len(words) = 0 THEN ""
    ELSE IF Len(words) = 1 THEN words[1]
    ELSE LET mid == Len(words) \div 2
         IN Join(SubSeq(words, 1, mid), sep) \o sep
            \o Join(SubSeq(words, mid + 1, Len(words)), sep)

\* strings.Split(s, "\n")
\* strings.Split(text, "\n"): the lines of the two halves of text, the last
\* line of the first half continued by the first line of the second
RECURSIVE SplitText(_)
SplitText(text) ==
    IF Len(text) <= 1 THEN (IF text = "\n" THEN <<"", "">> ELSE <<text>>)
    ELSE LET mid == Len(text) \div 2
             left == SplitText(SubSeq(text, 1, mid))
             right == SplitText(From(text, mid + 1))
         IN SubSeq(left, 1, Len(left) - 1)
            \o <<left[Len(left)] \o right[1]>>
            \o Tail(right)

\* the lines of cur followed by s[i:]
SplitNewlines(s, i, cur) == SplitText(cur \o From(s, i))

\* the end (exclusive) of the longest run of [a-z] starting at i
RECURSIVE LowerEnd(_, _)
LowerEnd(s, i) ==
    IF i <= Len(s) /\ IsLower(CharAt(s, i)) THEN LowerEnd(s, i + 1) ELSE i

\* number of bytes `^[a-z]+(\([^)]+\))?(!)?: ` takes from the start of
\* subject, 0 when it does not match
ConventionalPrefixLen(subject) ==
    LET e1 == LowerEnd(subject, 1)
        close == IndexFrom(subject, ")", e1 + 1)
        e2 == IF CharAt(subject, e1) = "(" /\ close > e1 + 1 THEN close + 1 ELSE e1
        e3 == IF CharAt(subject, e2) = "!" THEN e2 + 1 ELSE e2
    IN IF e1 > 1 /\ CharAt(subject, e3) = ":" /\ CharAt(subject, e3 + 1) = " "
       THEN e3 + 1
       ELSE 0

\* conventionalPattern.MatchString: the prefix and at least one more
\* character that is not a newline
MatchesConventional(subject) ==
    LET n == ConventionalPrefixLen(subject)
    IN n > 0 /\ n < Len(subject) /\ CharAt(subject, n + 1) # "\n"

NonImperativeForms ==
    << "added", "adding", "fixed", "fixing", "updated", "updating",
       "removed", "removing", "changed", "changing", "implemented",
       "implementing", "refactored", "refactoring" >>

isImperativeMood_NeverPast(subject) ==
    LET cleanSubject == From(subject, ConventionalPrefixLen(subject) + 1)
        cleanSubjectLower == ToLower(cleanSubject)
    IN ~\E i \in 1..Len(NonImperativeForms) :
           HasSuffix(NonImperativeForms[i], "ing")
             /\ HasPrefix(cleanSubjectLower, NonImperativeForms[i])

isImperativeMood(subject) ==
    LET cleanSubject == From(subject, ConventionalPrefixLen(subject) + 1)
        cleanSubjectLower == ToLower(cleanSubject)
    IN ~\E i \in 1..Len(NonImperativeForms) :
           HasPrefix(cleanSubjectLower, NonImperativeForms[i])

\* the replacements map of suggestImperativeMood
ImperativeOf(word) ==
    CASE word \in {"added", "adding"} -> "add"
      [] word \in {"fixed", "fixing"} -> "fix"
      [] word \in {"updated", "updating"} -> "update"
      [] word \in {"removed", "removing"} -> "remove"
      [] word \in {"changed", "changing"} -> "change"
      [] word \in {"implemented", "implementing"} -> "implement"
      [] word \in {"refactored", "refactoring"} -> "refactor"
      [] OTHER -> ""

suggestImperativeMood(subject) ==
    LET words == Fields(subject)
        replacement == IF Len(words) > 0 THEN ImperativeOf(ToLower(words[1])) ELSE ""
    IN IF replacement # ""
       THEN Join(<<ToUpperChar(CharAt(replacement, 1)) \o From(replacement, 2)>>
                   \o Tail(words), " ")
       ELSE subject

\* the loop of truncateSubject: words are taken while the result, the next
\* word and one more byte fit into maxLength
RECURSIVE TakeWords(_, _, _, _)
TakeWords(words, i, result, maxLength) ==
    IF i > Len(words) THEN result
    ELSE IF Len(result) + Len(words[i]) + 1 <= maxLength
         THEN TakeWords(words, i + 1,
                        (IF result # "" THEN result \o " " ELSE "") \o words[i], maxLength)
         ELSE result

\* truncateSubject: the text it returns, or a panic when subject[:maxLength-3]
\* is sliced with a negative bound
truncateSubject(subject, maxLength) ==
    IF Len(subject) <= maxLength THEN [panic |-> FALSE, text |-> subject]
    ELSE LET words == Fields(subject)
             result == TakeWords(words, 1, "", maxLength)
         IN IF result = "" /\ Len(words) > 0
            THEN IF maxLength - 3 < 0 THEN [panic |-> TRUE, text |-> ""]
                 ELSE [panic |-> FALSE, text |-> SubSeq(subject, 1, maxLength - 3) \o "..."]
            ELSE [panic |-> FALSE, text |-> result]

ValidationError(type) == [Type |-> type, Severity |-> "error"]
ValidationWarning(type, suggestion) == [Type |-> type, Suggestion |-> suggestion]
ValidationSuggestion(type, original, suggested) ==
    [Type |-> type, Original |-> original, Suggested |-> suggested]

\* validateSubjectLine: the result with the subject's findings appended
validateSubjectLine(config, subject, result) ==
    LET tooLong == Len(subject) > config.MaxSubjectLength
        truncated == truncateSubject(subject, config.MaxSubjectLength)
        firstChar == CharAt(subject, 1)
    IN [result EXCEPT
          !.panic = @ \/ (tooLong /\ truncated.panic),
          !.Errors = @ \o (IF tooLong THEN <<ValidationError("subject_length")>> ELSE <<>>)
                       \o (IF IsBlank(subject) THEN <<ValidationError("empty_subject")>>
                           ELSE <<>>),
          !.Suggestions = @ \o (IF tooLong
                                THEN <<ValidationSuggestion("subject_truncation", subject,
                                                            truncated.text)>>
                                ELSE <<>>),
          !.Warnings = @
             \o (IF HasSuffix(subject, ".")
                 THEN <<ValidationWarning("trailing_period", TrimSuffix(subject, "."))>>
                 ELSE <<>>)
             \o (IF config.EnforceCapitalization /\ Len(subject) > 0 /\ ~IsUpper(firstChar)
                 THEN <<ValidationWarning("capitalization",
                                          ToUpperChar(firstChar) \o From(subject, 2))>>
                 ELSE <<>>)
             \o (IF config.EnforceImperative /\ ~isImperativeMood(subject)
                 THEN <<ValidationWarning("imperative_mood", suggestImperativeMood(subject))>>
                 ELSE <<>>)]

\* validateBody
validateBody(config, body, result) ==
    LET lines == SplitNewlines(body, 1, "")
        long == SelectSeq(lines, LAMBDA line :
                             ~IsBlank(line) /\ Len(line) > config.MaxBodyLineLength)
    IN [result EXCEPT
          !.Warnings = @ \o [i \in 1..Len(long) |-> ValidationWarning("body_line_length", "")]
                         \o (IF ~HasPrefix(body, "\n")
                             THEN <<ValidationWarning("body_separation", "")>>
                             ELSE <<>>)]

\* validateConventionalCommits with validateBreakingChanges
validateConventionalCommits(config, msg, result) ==
    IF ~MatchesConventional(msg.Subject) THEN result
    ELSE LET commitType == SubSeq(msg.Subject, 1, LowerEnd(msg.Subject, 1) - 1)
         IN [result EXCEPT
               !.Errors = @ \o (IF commitType \notin config.AllowedTypes
                                THEN <<ValidationError("invalid_type")>> ELSE <<>>),
               !.Warnings = @ \o (IF Contains(msg.Subject, "!")
                                     /\ ~Contains(msg.Body, "BREAKING CHANGE:")
                                  THEN <<ValidationWarning("breaking_change_footer", "")>>
                                  ELSE <<>>)]

multipleChangeIndicators ==
    { " and ", " & ", ", ", " + ", " also ", " additionally ", " furthermore ",
      " moreover ", " besides ", " as well as ", " along with " }

validateAtomicCommit(msg, result) ==
    IF \E indicator \in multipleChangeIndicators : Contains(ToLower(msg.Subject), indicator)
    THEN [result EXCEPT !.Warnings = @ \o <<ValidationWarning("atomic_commit", "")>>]
    ELSE result

DefaultAllowedTypes ==
    {"feat", "fix", "docs", "style", "refactor", "perf", "test", "build", "ci",
     "chore", "revert"}

\* NewValidator: zero fields of the configuration get their defaults
NewValidatorConfig(config) ==
    [config EXCEPT
       !.MaxSubjectLength = IF @ = 0 THEN 50 ELSE @,
       !.MaxBodyLineLength = IF @ = 0 THEN 72 ELSE @,
       !.AllowedTypes = IF @ = {} THEN DefaultAllowedTypes ELSE @,
       !.Language = IF @ = "" THEN "en" ELSE @]

ValidateCommitMessage_WarningsInvalidate(config, msg) ==
    LET result0 == [panic |-> FALSE, IsValid |-> TRUE, Errors |-> <<>>,
                    Warnings |-> <<>>, Suggestions |-> <<>>]
        subject == IF msg.Subject = "" THEN msg.Description ELSE msg.Subject
        result1 == validateSubjectLine(config, subject, result0)
        result2 == IF msg.Body # "" THEN validateBody(config, msg.Body, result1) ELSE result1
        result3 == validateConventionalCommits(config, msg, result2)
        result4 == validateAtomicCommit(msg, result3)
    IN IF result1.panic THEN [panic |-> TRUE]
       ELSE [result4 EXCEPT !.IsValid = Len(result4.Errors) = 0 /\ Len(result4.Warnings) = 0]

\* ValidateCommitMessage: the result, or a panic raised on the way
ValidateCommitMessage(config, msg) ==
    LET result0 == [panic |-> FALSE, IsValid |-> TRUE, Errors |-> <<>>,
                    Warnings |-> <<>>, Suggestions |-> <<>>]
        subject == IF msg.Subject = "" THEN msg.Description ELSE msg.Subject
        result1 == validateSubjectLine(config, subject, result0)
        result2 == IF msg.Body # "" THEN validateBody(config, msg.Body, result1) ELSE result1
        result3 == validateConventionalCommits(config, msg, result2)
        result4 == validateAtomicCommit(msg, result3)
    IN IF result1.panic THEN [panic |-> TRUE]
       ELSE [result4 EXCEPT !.IsValid = Len(result4.Errors) = 0]


-----------------------------------------------------------------------------
(* internal/formatter: the subject line of the formatted message *)

\* strings.LastIndex(s, " "), counted from 0; -1 when s has no space
RECURSIVE LastSpace(_, _)
LastSpace(s, i) ==
    IF i < 1 THEN -1
    ELSE IF CharAt(s, i) = " " THEN i - 1
    ELSE LastSpace(s, i - 1)

capitalizeFirst(s) == IF s = "" THEN s ELSE ToUpperChar(CharAt(s, 1)) \o From(s, 2)

\* truncateAtWord: the text it returns, or a panic when text[:maxLength-3]
\* is sliced with a negative bound
truncateAtWord(text, maxLength) ==
    IF Len(text) <= maxLength THEN [panic |-> FALSE, text |-> text]
    ELSE LET truncated == SubSeq(text, 1, maxLength)
             lastSpace == LastSpace(truncated, Len(truncated))
         IN IF lastSpace > 0 THEN [panic |-> FALSE, text |-> SubSeq(text, 1, lastSpace)]
            ELSE IF maxLength - 3 < 0 THEN [panic |-> TRUE, text |-> ""]
            ELSE [panic |-> FALSE, text |-> SubSeq(text, 1, maxLength - 3) \o "..."]

\* what formatSubjectLine writes before the description
SubjectPrefix(msg) ==
    (IF msg.Type # "" THEN ToLower(msg.Type) ELSE "")
      \o (IF msg.Scope # "" THEN "(" \o msg.Scope \o ")" ELSE "")
      \o (IF msg.Breaking THEN "!" ELSE "")
      \o ": "

formatSubjectLine(config, msg) ==
    LET prefix == SubjectPrefix(msg)
        description == TrimSuffix(capitalizeFirst(IF msg.Subject # "" THEN msg.Subject
                                                  ELSE msg.Description), ".")
        maxDescLength == config.MaxSubjectLength - Len(prefix)
        cut == IF Len(prefix \o description) > config.MaxSubjectLength /\ maxDescLength > 0
               THEN truncateAtWord(description, maxDescLength)
               ELSE [panic |-> FALSE, text |-> description]
    IN [panic |-> cut.panic, text |-> IF cut.panic THEN "" ELSE prefix \o cut.text]

DefaultFormatterConfig ==
    [MaxSubjectLength |-> 50, MaxBodyLineLength |-> 72, AutoWrapBody |-> TRUE,
     BreakOnSentence |-> TRUE, EnforceBlankLine |-> TRUE]

-----------------------------------------------------------------------------
(* Messages are validated and formatted *)

MaxSubjectWords == 3

SubjectWords == {"feat:", "Added", "flow.", "and"}

\* the texts of up to MaxSubjectWords words
Phrases ==
    { Join(words, " ") :
        words \in UNION { [1..n -> SubjectWords] : n \in 0..MaxSubjectWords } }

Sixty == "Implement the login flow for the new accounts page with OAuth"
SixtyUnbroken == "ImplementTheLoginFlowForTheNewAccountsPageWithOAuthAndTokens"

Subjects ==
    Phrases \cup { "Added new login flow.", Sixty, SixtyUnbroken, "   ",
                   "feat(api)!: drop the old api", "oops: fix typo", "abc" }

Bodies == { "", "\nExplain why the change is needed", "BREAKING CHANGE: the api is gone" }

CommitMessage(type, scope, breaking, subject, description, body) ==
    [Type |-> type, Scope |-> scope, Breaking |-> breaking, Subject |-> subject,
     Description |-> description, Body |-> body]

ValidatorMessages ==
    { CommitMessage("feat", "", FALSE, subject, "", body) :
        subject \in Subjects \ {""}, body \in Bodies }
    \cup { CommitMessage("feat", "", FALSE, "", description, body) :
             description \in {"", "updating the docs", Sixty}, body \in Bodies }

\* the configuration the generator service builds its validator with
ServiceValidatorConfig ==
    [MaxSubjectLength |-> 50, MaxBodyLineLength |-> 72, EnforceImperative |-> TRUE,
     EnforceCapitalization |-> TRUE,
     AllowedTypes |-> DefaultAllowedTypes \cup {"security", "deps"},
     RequireBody |-> FALSE, Language |-> "vi"]

ValidatorConfigs ==
    [MaxSubjectLength : {0, 12, 2}, MaxBodyLineLength : {0, 20},
     EnforceImperative : BOOLEAN, EnforceCapitalization : BOOLEAN,
     AllowedTypes : {{}}, RequireBody : {FALSE}, Language : {""}]
    \cup {ServiceValidatorConfig}

InitValidate ==
    /\ pc = "validation"
    /\ summary = Nil
    /\ ParseIdle
    /\ ProcIdle
    /\ VerIdle
    /\ TagIdle
    /\ ScopeIdle
    /\ MsgIdle
    /\ CtxIdle
    /\ LimIdle
    /\ RespIdle
    /\ GenIdle
    /\ ConcIdle

NewValidator ==
    /\ pc = "validation"
    /\ \E config \in ValidatorConfigs : validator' = NewValidatorConfig(config)
    /\ pc' = "validator"
    /\ UNCHANGED <<summary, parseVars, procVars, verVars, tagVars, scopeVars,
                   formatter, message, validation, formatted, ctxVars, limVars, respVars, genVars, concVars>>

ValidateMessage ==
    /\ pc = "validator"
    /\ \E msg \in ValidatorMessages :
         /\ message' = msg
         /\ validation' = ValidateCommitMessage(validator, msg)
    /\ pc' = "validated"
    /\ UNCHANGED <<summary, parseVars, procVars, verVars, tagVars, scopeVars,
                   validator, formatter, formatted, ctxVars, limVars, respVars, genVars, concVars>>

NextValidate == NewValidator \/ ValidateMessage

SpecValidate == InitValidate /\ [][NextValidate]_vars

LongScope == "authentication-and-authorization-middleware"

FormatterMessages ==
    { CommitMessage(type, scope, breaking, subject, description, "") :
        type \in {"feat", "Refactor"}, scope \in {"", "api", "scope", LongScope},
        breaking \in BOOLEAN, subject \in {"", Sixty},
        description \in (Phrases \ {""}) \cup {SixtyUnbroken} }

FormatterConfigs ==
    [MaxSubjectLength : {12, 20}, MaxBodyLineLength : {72}, AutoWrapBody : {TRUE},
     BreakOnSentence : {TRUE}, EnforceBlankLine : {TRUE}]

InitFormat ==
    /\ pc = "formatting"
    /\ summary = Nil
    /\ ParseIdle
    /\ ProcIdle
    /\ VerIdle
    /\ TagIdle
    /\ ScopeIdle
    /\ MsgIdle
    /\ CtxIdle
    /\ LimIdle
    /\ RespIdle
    /\ GenIdle
    /\ ConcIdle

NewMessageFormatter ==
    /\ pc = "formatting"
    /\ formatter' = DefaultFormatterConfig
    /\ pc' = "formatter"
    /\ UNCHANGED <<summary, parseVars, procVars, verVars, tagVars, scopeVars,
                   validator, message, validation, formatted, ctxVars, limVars, respVars, genVars, concVars>>

NewMessageFormatterWithConfig ==
    /\ pc = "formatting"
    /\ \E config \in FormatterConfigs : formatter' = config
    /\ pc' = "formatter"
    /\ UNCHANGED <<summary, parseVars, procVars, verVars, tagVars, scopeVars,
                   validator, message, validation, formatted, ctxVars, limVars, respVars, genVars, concVars>>

FormatSubjectLine ==
    /\ pc = "formatter"
    /\ \E msg \in FormatterMessages :
         /\ message' = msg
         /\ formatted' = formatSubjectLine(formatter, msg)
    /\ pc' = "formatted"
    /\ UNCHANGED <<summary, parseVars, procVars, verVars, tagVars, scopeVars,
                   validator, formatter, validation, ctxVars, limVars, respVars, genVars, concVars>>

NextFormat == NewMessageFormatter \/ NewMessageFormatterWithConfig \/ FormatSubjectLine

SpecFormat == InitFormat /\ [][NextFormat]_vars

-----------------------------------------------------------------------------
(* Properties of the validator and the formatter *)

HasOfType(list, type) == \E i \in 1..Len(list) : list[i].Type = type

ValidatedSubject == IF message.Subject = "" THEN message.Description ELSE message.Subject

\* C14: IsValid is true exactly when the Errors list is empty, whatever the
\* warnings and suggestions
C14_ValidIffNoErrors ==
    (pc = "validated" /\ ~validation.panic) =>
        (validation.IsValid <=> validation.Errors = <<>>)

\* a valid result that carries warnings
C14_Witness ==
    /\ pc = "validated"
    /\ ~validation.panic
    /\ validation.IsValid
    /\ Len(validation.Warnings) >= 2

\* C15: the subject line FormatCommitMessage renders is never longer than
\* MaxSubjectLength
C15_SubjectWithinLimit ==
    pc = "formatted" =>
        /\ ~formatted.panic
        /\ Len(formatted.text) <= formatter.MaxSubjectLength

LeadingWords(subject) ==
    { Join(SubSeq(Fields(subject), 1, n), " ") : n \in 0..Len(Fields(subject)) }

\* C17: a subject longer than MaxSubjectLength gets a subject_length error,
\* IsValid is false, and there is a subject_truncation suggestion whose text
\* is made of leading words of the subject and is not longer than
\* MaxSubjectLength
C17_LongSubjectTruncationSuggested ==
    (pc = "validated" /\ Len(ValidatedSubject) > validator.MaxSubjectLength) =>
        /\ ~validation.panic
        /\ HasOfType(validation.Errors, "subject_length")
        /\ ~validation.IsValid
        /\ \E i \in 1..Len(validation.Suggestions) :
              /\ validation.Suggestions[i].Type = "subject_truncation"
              /\ validation.Suggestions[i].Suggested \in LeadingWords(ValidatedSubject)
              /\ Len(validation.Suggestions[i].Suggested) <= validator.MaxSubjectLength

-----------------------------------------------------------------------------
(* internal/context: the change-context analyzer *)

\* strings.TrimSpace
RECURSIVE TrimLeftSpace(_)
TrimLeftSpace(s) ==
    IF s # "" /\ IsWhite(CharAt(s, 1)) THEN TrimLeftSpace(From(s, 2)) ELSE s

RECURSIVE TrimRightSpace(_)
TrimRightSpace(s) ==
    IF s # "" /\ IsWhite(CharAt(s, Len(s)))
    THEN TrimRightSpace(SubSeq(s, 1, Len(s) - 1)) ELSE s

TrimSpace(s) == TrimRightSpace(TrimLeftSpace(s))

\* strings.Trim(s, `"'`)
IsQuote(c) == c \in {"\"", "'"}

RECURSIVE TrimLeftQuotes(_)
TrimLeftQuotes(s) ==
    IF s # "" /\ IsQuote(CharAt(s, 1)) THEN TrimLeftQuotes(From(s, 2)) ELSE s

RECURSIVE TrimRightQuotes(_)
TrimRightQuotes(s) ==
    IF s # "" /\ IsQuote(CharAt(s, Len(s)))
    THEN TrimRightQuotes(SubSeq(s, 1, Len(s) - 1)) ELSE s

TrimQuotes(s) == TrimRightQuotes(TrimLeftQuotes(s))

\* strings.SplitN(s, sep, 2) for a one-character sep that s contains
SplitN2(s, sep) ==
    LET i == IndexFrom(s, sep, 1)
    IN <<SubSeq(s, 1, i - 1), From(s, i + 1)>>

\* a value of type `any`: a string, or nil
Value(v) == [set |-> TRUE, v |-> v]
NoValue  == [set |-> FALSE, v |-> ""]

ConfigChange(file, parameter, oldValue, newValue, context) ==
    [File |-> file, Parameter |-> parameter, OldValue |-> oldValue,
     NewValue |-> newValue, Context |-> context]

\* parseConfigLine.  It is called with a line that contains ":" or "=",
\* so one of the two branches returns.
parseConfigLine(filePath, rawLine, changeType) ==
    LET line == TrimSpace(rawLine)
        sep == IF Contains(line, ":") THEN ":" ELSE "="
        parts == SplitN2(line, sep)
        key == TrimSpace(parts[1])
        trimmed == TrimSpace(parts[2])
        value == IF sep = ":" THEN TrimQuotes(trimmed) ELSE trimmed
    IN ConfigChange(filePath, key, NoValue, Value(value),
                    "Configuration " \o changeType)

analyzeTimeoutChange(parameter, oldValue, newValue) ==
    "Timeout configuration '" \o parameter \o "' adjusted from " \o oldValue
    \o " to " \o newValue
    \o " - likely for performance optimization or reliability improvement"

analyzeNetworkChange(parameter, oldValue, newValue) ==
    "Network configuration '" \o parameter \o "' updated from " \o oldValue
    \o " to " \o newValue
    \o " - may indicate environment change or service migration"

analyzeLimitChange(parameter, oldValue, newValue) ==
    "Limit configuration '" \o parameter \o "' changed from " \o oldValue
    \o " to " \o newValue
    \o " - likely for capacity planning or performance tuning"

analyzeBooleanChange(parameter, oldValue, newValue) ==
    IF newValue = "true" /\ oldValue = "false"
    THEN "Feature '" \o parameter \o "' enabled - functionality activation"
    ELSE IF newValue = "false" /\ oldValue = "true"
    THEN "Feature '" \o parameter \o "' disabled - functionality deactivation"
    ELSE "Boolean configuration '" \o parameter \o "' toggled from " \o oldValue
         \o " to " \o newValue

analyzeVersionChange(parameter, oldValue, newValue) ==
    "Version configuration '" \o parameter \o "' updated from " \o oldValue
    \o " to " \o newValue \o " - likely upgrade or compatibility change"

analyzeModeChange(parameter, oldValue, newValue) ==
    "Mode configuration '" \o parameter \o "' changed from " \o oldValue
    \o " to " \o newValue \o " - operational behavior modification"

\* fmt.Sprintf("%v", value)
FormatValue(value) == IF value.set THEN value.v ELSE "<nil>"

ContainsAny(s, substrs) == \E substr \in substrs : Contains(s, substr)

analyzeConfigChangeContext(parameter, oldValue, newValue) ==
    LET paramLower == ToLower(parameter)
        oldStr == FormatValue(oldValue)
        newStr == FormatValue(newValue)
    IN IF ContainsAny(paramLower, {"timeout", "delay"})
       THEN analyzeTimeoutChange(parameter, oldStr, newStr)
       ELSE IF ContainsAny(paramLower, {"port", "host", "url"})
       THEN analyzeNetworkChange(parameter, oldStr, newStr)
       ELSE IF ContainsAny(paramLower, {"size", "limit", "max", "min"})
       THEN analyzeLimitChange(parameter, oldStr, newStr)
       ELSE IF \/ ContainsAny(paramLower, {"enable", "disable"})
               \/ oldStr \in {"true", "false"}
               \/ newStr \in {"true", "false"}
       THEN analyzeBooleanChange(parameter, oldStr, newStr)
       ELSE IF ContainsAny(paramLower, {"version", "model"})
       THEN analyzeVersionChange(parameter, oldStr, newStr)
       ELSE IF ContainsAny(paramLower, {"level", "mode"})
       THEN analyzeModeChange(parameter, oldStr, newStr)
       ELSE "Configuration value changed from '" \o oldStr \o "' to '"
            \o newStr \o "'"

\* The first loop of extractConfigChanges: the map (removedConfigs for
\* prefix "-", addedConfigs for prefix "+") after lines[i..], a later line
\* with the same key replacing an earlier one.
RECURSIVE ConfigsFrom(_, _, _, _, _)
ConfigsFrom(filePath, lines, i, prefix, configs) ==
    IF i > Len(lines) THEN configs
    ELSE LET line == TrimSpace(lines[i])
             isConfig == Contains(line, ":") \/ Contains(line, "=")
             isRemoved == HasPrefix(line, "-") /\ isConfig
             isAdded == ~isRemoved /\ HasPrefix(line, "+") /\ isConfig
             taken == IF prefix = "-" THEN isRemoved ELSE isAdded
             change == parseConfigLine(filePath, From(line, 2),
                                       IF prefix = "-" THEN "removed" ELSE "added")
         IN ConfigsFrom(filePath, lines, i + 1, prefix,
                IF taken
                THEN [k \in DOMAIN configs \cup {change.Parameter} |->
                         IF k = change.Parameter THEN change ELSE configs[k]]
                ELSE configs)

EmptyMap == [k \in {} |-> Nil]

\* the elements of visited that are in keys, in the order of visited
RECURSIVE Restrict(_, _)
Restrict(visited, keys) ==
    IF visited = <<>> THEN <<>>
    ELSE IF visited[1] \in keys THEN <<visited[1]>> \o Restrict(Tail(visited), keys)
    ELSE Restrict(Tail(visited), keys)

\* extractConfigChanges.  The three loops range over maps; visited is the
\* order in which the keys are met (the key sets of the three loops are
\* disjoint, so one order of all keys stands for the three iteration orders).
extractConfigChanges(file, visited) ==
    LET lines == SplitNewlines(file.Content, 1, "")
        removedConfigs == ConfigsFrom(file.Path, lines, 1, "-", EmptyMap)
        addedConfigs == ConfigsFrom(file.Path, lines, 1, "+", EmptyMap)
        both == DOMAIN removedConfigs \cap DOMAIN addedConfigs
        matched == Restrict(visited, both)
        removed == Restrict(visited, DOMAIN removedConfigs \ both)
        added == Restrict(visited, DOMAIN addedConfigs \ both)
    IN [i \in 1..Len(matched) |->
           LET param == matched[i]
           IN ConfigChange(file.Path, param,
                  removedConfigs[param].NewValue,
                  addedConfigs[param].NewValue,
                  analyzeConfigChangeContext(param,
                      removedConfigs[param].NewValue,
                      addedConfigs[param].NewValue))]
       \o [i \in 1..Len(removed) |->
              [removedConfigs[removed[i]] EXCEPT
                  !.Context = "Configuration parameter removed: " \o removed[i]]]
       \o [i \in 1..Len(added) |->
              [addedConfigs[added[i]] EXCEPT
                  !.Context = "New configuration parameter added: " \o added[i]]]

\* the keys extractConfigChanges keeps in its maps for this file
ConfigKeys(file) ==
    LET lines == SplitNewlines(file.Content, 1, "")
    IN DOMAIN ConfigsFrom(file.Path, lines, 1, "-", EmptyMap)
       \cup DOMAIN ConfigsFrom(file.Path, lines, 1, "+", EmptyMap)

\* configFilePatterns: every pattern is a literal suffix anchored at the end
configFilePatterns ==
    <<".yaml", ".yml", ".json", ".toml", ".ini", ".conf", ".config",
      "config.go", "settings.go", "constants.go">>

isConfigFile(path) ==
    \E i \in 1..Len(configFilePatterns) : HasSuffix(path, configFilePatterns[i])

\* analyzeConfigChanges; orders[i] is the map order used for file i
RECURSIVE analyzeConfigChangesFrom(_, _, _)
analyzeConfigChangesFrom(files, orders, i) ==
    IF i > Len(files) THEN <<>>
    ELSE (IF isConfigFile(files[i].Path)
          THEN extractConfigChanges(files[i], orders[i]) ELSE <<>>)
         \o analyzeConfigChangesFrom(files, orders, i + 1)

analyzeConfigChanges(diffSummary, orders) ==
    analyzeConfigChangesFrom(diffSummary.Files, orders, 1)


\* \w and \s of the regexp package
IsWordChar(c) == IsLetter(c) \/ IsDigit(c) \/ c = "_"
IsReSpace(c) == c \in {" ", "\t", "\n", "\r", "\f"}

\* the end (exclusive) of the longest run of \w, of \s, starting at i
RECURSIVE WordEnd(_, _)
WordEnd(s, i) ==
    IF i <= Len(s) /\ IsWordChar(CharAt(s, i)) THEN WordEnd(s, i + 1) ELSE i

RECURSIVE ReSpaceEnd(_, _)
ReSpaceEnd(s, i) ==
    IF i <= Len(s) /\ IsReSpace(CharAt(s, i)) THEN ReSpaceEnd(s, i + 1) ELSE i

\* `(\w+)\s*\(` matched at i: the captured name, "" when there is no match
NameBeforeParen(s, i) ==
    LET k == WordEnd(s, i)
    IN IF k > i /\ CharAt(s, ReSpaceEnd(s, k)) = "("
       THEN SubSeq(s, i, k - 1) ELSE ""

\* `func\s+(\w+)\s*\(` matched at i
GoFuncAt(s, i) ==
    LET j == ReSpaceEnd(s, i + 4)
    IN IF HasPrefix(From(s, i), "func") /\ j > i + 4
       THEN NameBeforeParen(s, j) ELSE ""

\* `func\s+\(\w+\s+\*?\w+\)\s+(\w+)\s*\(` matched at i
GoMethodAt(s, i) ==
    LET j == ReSpaceEnd(s, i + 4)
        recv == WordEnd(s, j + 1)
        sp == ReSpaceEnd(s, recv)
        ty == IF CharAt(s, sp) = "*" THEN sp + 1 ELSE sp
        tyEnd == WordEnd(s, ty)
        name == ReSpaceEnd(s, tyEnd + 1)
    IN IF /\ HasPrefix(From(s, i), "func") /\ j > i + 4
          /\ CharAt(s, j) = "(" /\ recv > j + 1 /\ sp > recv
          /\ tyEnd > ty /\ CharAt(s, tyEnd) = ")" /\ name > tyEnd + 1
       THEN NameBeforeParen(s, name) ELSE ""

\* re.FindStringSubmatch(cleanLine)[1] for the two Go patterns: the name
\* captured by the leftmost match, "" when the pattern does not match
RECURSIVE FindFunctionName(_, _, _)
FindFunctionName(pattern, s, i) ==
    IF i > Len(s) THEN ""
    ELSE LET name == IF pattern = "func" THEN GoFuncAt(s, i) ELSE GoMethodAt(s, i)
         IN IF name # "" THEN name ELSE FindFunctionName(pattern, s, i + 1)

\* functionPatterns: the entry of "go"; the files of the runs are Go and
\* configuration files, the patterns of the other four languages are not
\* exercised
functionPatterns == [go |-> <<"func", "method">>]

FunctionChange(file, functionName, changeType, impact) ==
    [File |-> file, FunctionName |-> functionName, ChangeType |-> changeType,
     Impact |-> impact]

determineFunctionImpact(line) ==
    "Function signature or implementation change - logic modification or enhancement"

\* the sequences seqs[a..b], one after the other
RECURSIVE Flatten(_, _, _)
Flatten(seqs, a, b) ==
    IF a > b THEN <<>>
    ELSE IF a = b THEN seqs[a]
    ELSE LET mid == (a + b) \div 2
         IN Flatten(seqs, a, mid) \o Flatten(seqs, mid + 1, b)

\* the body of the loop of extractFunctionChanges: the changes one line
\* gives, one for each pattern that captures a name in it
FunctionChangesOfLine(file, patterns, line) ==
    IF ~(HasPrefix(line, "+") \/ HasPrefix(line, "-")) THEN <<>>
    ELSE LET changeType == IF HasPrefix(line, "+") THEN "added" ELSE "removed"
             cleanLine == TrimSpace(From(line, 2))
             names == [p \in 1..Len(patterns) |->
                          FindFunctionName(patterns[p], cleanLine, 1)]
         IN Flatten([p \in 1..Len(patterns) |->
                        IF names[p] # ""
                        THEN <<FunctionChange(file.Path, names[p], changeType,
                                              determineFunctionImpact(cleanLine))>>
                        ELSE <<>>],
                    1, Len(patterns))

extractFunctionChanges(file, patterns) ==
    LET lines == SplitNewlines(file.Content, 1, "")
    IN Flatten([i \in 1..Len(lines) |->
                   FunctionChangesOfLine(file, patterns, lines[i])],
               1, Len(lines))

RECURSIVE analyzeFunctionChangesFrom(_, _)
analyzeFunctionChangesFrom(files, i) ==
    IF i > Len(files) THEN <<>>
    ELSE LET language == ToLower(files[i].Language)
         IN (IF files[i].Language # "" /\ language \in DOMAIN functionPatterns
             THEN extractFunctionChanges(files[i], functionPatterns[language])
             ELSE <<>>)
            \o analyzeFunctionChangesFrom(files, i + 1)

analyzeFunctionChanges(diffSummary) ==
    analyzeFunctionChangesFrom(diffSummary.Files, 1)

performanceCategories ==
    [caching     |-> <<"cache", "memoize", "redis", "memcached", "lru", "ttl">>,
     database    |-> <<"index", "query", "sql", "database", "db", "orm", "transaction">>,
     concurrency |-> <<"goroutine", "thread", "async", "await", "concurrent",
                       "parallel", "mutex", "lock", "channel">>,
     memory      |-> <<"memory", "heap", "gc", "garbage", "leak", "allocation",
                       "buffer", "pool">>,
     algorithm   |-> <<"algorithm", "complexity", "optimize", "efficient", "sort",
                       "search", "hash">>,
     io          |-> <<"io", "read", "write", "stream", "batch", "bulk", "pipeline">>,
     network     |-> <<"timeout", "retry", "connection", "keepalive", "compression">>,
     monitoring  |-> <<"benchmark", "profile", "metric", "monitor", "trace",
                       "performance">>]

analyzePerformanceChange(filePath, category, keyword) ==
    LET tail == " in " \o filePath \o " (" \o keyword \o ") - likely "
    IN CASE category = "caching" ->
              "Caching optimization" \o tail
              \o "improving response times and reducing computational overhead"
         [] category = "database" ->
              "Database optimization" \o tail
              \o "improving query performance and data access efficiency"
         [] category = "concurrency" ->
              "Concurrency optimization" \o tail
              \o "improving throughput and resource utilization"
         [] category = "memory" ->
              "Memory optimization" \o tail
              \o "reducing memory usage and preventing leaks"
         [] category = "algorithm" ->
              "Algorithm optimization" \o tail
              \o "improving computational efficiency and reducing complexity"
         [] category = "io" ->
              "I/O optimization" \o tail
              \o "improving data processing throughput and reducing latency"
         [] category = "network" ->
              "Network optimization" \o tail
              \o "improving connection reliability and reducing network overhead"
         [] category = "monitoring" ->
              "Performance monitoring enhancement" \o tail
              \o "improving observability and performance tracking"
         [] OTHER ->
              "Performance-related change detected in " \o filePath \o ": " \o keyword

\* the hints detectPerformanceChanges adds for one file: one per category
\* with a keyword in the content (the first such keyword of the category),
\* then the two special patterns
PerformanceHintsOf(file) ==
    LET content == ToLower(file.Content)
        firstHit(category) ==
            LET keywords == performanceCategories[category]
                hits == { k \in 1..Len(keywords) : Contains(content, keywords[k]) }
            IN IF hits = {} THEN ""
               ELSE keywords[CHOOSE k \in hits : \A l \in hits : k <= l]
        first == [category \in DOMAIN performanceCategories |-> firstHit(category)]
    IN { analyzePerformanceChange(file.Path, category, first[category]) :
           category \in { c \in DOMAIN performanceCategories : first[c] # "" } }
       \cup (IF Contains(content, "+") /\ Contains(content, "time.")
             THEN { "Timing optimization detected in " \o file.Path
                    \o " - performance measurement or timeout handling" }
             ELSE {})
       \cup (IF Contains(content, "sync.") \/ Contains(content, "atomic.")
             THEN { "Synchronization optimization detected in " \o file.Path
                    \o " - concurrency safety improvement" }
             ELSE {})

\* detectPerformanceChanges.  The categories are met in map order, which
\* fixes only the order of a file's hints; the hints are kept as the set of
\* strings the list holds (they name the file and the category, so no two
\* are equal).
detectPerformanceChanges(diffSummary) ==
    UNION { PerformanceHintsOf(diffSummary.Files[i]) :
              i \in 1..Len(diffSummary.Files) }

\* m[key] of a Go map of counters: zero for an absent key
CountOf(m, key) == IF key \in DOMAIN m THEN m[key] ELSE 0

isDocFile(path) ==
    LET lower == ToLower(path)
    IN HasSuffix(lower, ".md") \/ HasSuffix(lower, ".txt") \/ Contains(lower, "doc")

analyzeChangePatterns_NewFeatureOnTie(diffSummary) ==
    LET files == diffSummary.Files
        languages == { files[i].Language : i \in 1..Len(files) } \ {""}
        fileTypes == [l \in languages |->
                         Cardinality({ i \in 1..Len(files) : files[i].Language = l })]
        changeTypes == CountByChangeType(files)
        docFiles == Cardinality({ i \in 1..Len(files) : isDocFile(files[i].Path) })
    IN [file_types |-> fileTypes,
        change_types |-> changeTypes,
        likely_refactoring |->
            Len(files) > 3
            /\ CountOf(changeTypes, "modified") > CountOf(changeTypes, "added"),
        likely_new_feature |->
            CountOf(changeTypes, "added") >= CountOf(changeTypes, "modified"),
        documentation_update |-> docFiles > 0,
        documentation_files |-> docFiles]

\* analyzeChangePatterns: the entries it puts into context.ChangePatterns; a
\* flag that is not set is FALSE here, and documentation_files is 0 when
\* the key is absent
analyzeChangePatterns(diffSummary) ==
    LET files == diffSummary.Files
        languages == { files[i].Language : i \in 1..Len(files) } \ {""}
        fileTypes == [l \in languages |->
                         Cardinality({ i \in 1..Len(files) : files[i].Language = l })]
        changeTypes == CountByChangeType(files)
        docFiles == Cardinality({ i \in 1..Len(files) : isDocFile(files[i].Path) })
    IN [file_types |-> fileTypes,
        change_types |-> changeTypes,
        likely_refactoring |->
            Len(files) > 3
            /\ CountOf(changeTypes, "modified") > CountOf(changeTypes, "added"),
        likely_new_feature |->
            CountOf(changeTypes, "added") > CountOf(changeTypes, "modified"),
        documentation_update |-> docFiles > 0,
        documentation_files |-> docFiles]

ChangeContext(recent, related, configs, functions, hints, patterns) ==
    [RecentCommits |-> recent, RelatedCommits |-> related,
     ConfigChanges |-> configs, FunctionChanges |-> functions,
     PerformanceHints |-> hints, ChangePatterns |-> patterns]


-----------------------------------------------------------------------------
(* Analyzer run: AnalyzeChangeContext on a diff summary *)

MaxConfigLines == 2

\* lines of the diff of a configuration file
ConfigLines ==
    { "-config.Timeout = 30", "+config.Timeout = 60",
      "-timeout: 30", "+timeout: \"60\"",
      "+port=8080", "  - name: web" }

ConfigContents ==
    { Join(lines, "\n") :
        lines \in UNION { [1..n -> ConfigLines] : n \in 0..MaxConfigLines } }

ConfigPaths == { "app.yaml", "settings.go" }

\* a configuration file with staged changes; GetDiffSummary records a file
\* present on both sides as modified or as renamed
ConfigFiles ==
    { File(path, changeType, 1, 1, content) :
        path \in ConfigPaths,
        changeType \in { ChangeTypeModified, ChangeTypeRenamed },
        content \in ConfigContents }

AddedGoLines == 80

\* a new Go file of AddedGoLines added lines (a package clause, one method
\* and blank lines)
AddedGoFile ==
    File("server.go", ChangeTypeAdded, AddedGoLines, 0,
         Join([i \in 1..AddedGoLines |->
                  IF i = 1 THEN "+package main"
                  ELSE IF i = 2 THEN "+func (s *Server) Run(addr string) error {"
                  ELSE IF i = AddedGoLines THEN "+}"
                  ELSE "+"], "\n"))

SummaryOf(files) ==
    [Files        |-> files,
     TotalAdded   |-> IF files = <<>> THEN 0
                      ELSE IF Len(files) = 1 THEN files[1].LinesAdded
                      ELSE files[1].LinesAdded + files[2].LinesAdded,
     TotalDeleted |-> IF files = <<>> THEN 0
                      ELSE IF Len(files) = 1 THEN files[1].LinesDeleted
                      ELSE files[1].LinesDeleted + files[2].LinesDeleted,
     TotalFiles   |-> Len(files)]

\* the lines of the configuration file in the runs that also add the Go file
TimeoutLines == { "-config.Timeout = 30", "+config.Timeout = 60" }

TimeoutContents ==
    { Join(lines, "\n") :
        lines \in UNION { [1..n -> TimeoutLines] : n \in 0..MaxConfigLines } }

\* the staged changes handed to the analyzer: a configuration file alone,
\* or the new Go file followed by a configuration file that changes the
\* timeout
ContextInputs ==
    { SummaryOf(<<f>>) : f \in ConfigFiles }
    \cup { SummaryOf(<<AddedGoFile, f>>) :
             f \in { g \in ConfigFiles : g.Content \in TimeoutContents } }

\* what GetRecentCommits and GetFileHistory return: commits, or an error
Commit == [Hash |-> "abc1234", Subject |-> "feat: add server"]
HistoryOutcomes == { [err |-> FALSE, commits |-> <<Commit>>],
                     [err |-> TRUE, commits |-> <<>>] }

InitContext ==
    /\ pc = "context"
    /\ summary = Nil
    /\ ParseIdle
    /\ ProcIdle
    /\ VerIdle
    /\ TagIdle
    /\ ScopeIdle
    /\ MsgIdle
    /\ CtxIdle
    /\ LimIdle
    /\ RespIdle
    /\ GenIdle
    /\ ConcIdle

\* Analyzer.AnalyzeChangeContext(diffSummary).  extractConfigChanges runs on
\* the configuration file only, so one map order is drawn, for that file.
AnalyzeChangeContext ==
    /\ pc = "context"
    /\ \E diffSummary \in ContextInputs, recent \in HistoryOutcomes,
          related \in HistoryOutcomes :
         LET files == diffSummary.Files
             config == files[Len(files)]
         IN \E visited \in MapOrders(ConfigKeys(config)) :
               /\ summary' = diffSummary
               /\ changeContext' =
                     ChangeContext(
                         IF recent.err THEN <<>> ELSE recent.commits,
                         IF Len(files) > 0 /\ ~related.err
                         THEN related.commits ELSE <<>>,
                         analyzeConfigChanges(diffSummary,
                             [i \in 1..Len(files) |->
                                 IF i = Len(files) THEN visited ELSE <<>>]),
                         analyzeFunctionChanges(diffSummary),
                         detectPerformanceChanges(diffSummary),
                         analyzeChangePatterns(diffSummary))
    /\ pc' = "analyzed"
    /\ UNCHANGED <<parseVars, procVars, verVars, tagVars, scopeVars, msgVars, limVars, respVars, genVars, concVars>>

NextContext == AnalyzeChangeContext

SpecContext == InitContext /\ [][NextContext]_vars


-----------------------------------------------------------------------------
(* Properties of the change-context analyzer *)

\* the lines of a file's diff that start with the marker ("-" or "+") and
\* hold a key and a value
MarkedLines(file, marker) ==
    LET lines == SplitNewlines(file.Content, 1, "")
    IN { lines[i] : i \in { j \in 1..Len(lines) :
                              /\ HasPrefix(lines[j], marker)
                              /\ Contains(lines[j], ":") \/ Contains(lines[j], "=") } }

KeyOfLine(line) == parseConfigLine("", From(line, 2), "").Parameter
ValueOfLine(line) == parseConfigLine("", From(line, 2), "").NewValue

KeysOn(file, marker) == { KeyOfLine(l) : l \in MarkedLines(file, marker) }

ValuesOn(file, marker, key) ==
    { ValueOfLine(l) : l \in { m \in MarkedLines(file, marker) : KeyOfLine(m) = key } }

ChangesFor(file, key) ==
    { j \in 1..Len(changeContext.ConfigChanges) :
        /\ changeContext.ConfigChanges[j].File = file.Path
        /\ changeContext.ConfigChanges[j].Parameter = key }

\* C18: within one configuration file every parameter key yields exactly
\* one ConfigChange; a key on a removed and on an added line carries the
\* removed value as OldValue and the added value as NewValue, a key on added
\* lines only carries the added value as NewValue, and a key on removed lines
\* only carries the removed value as OldValue and no NewValue.
C18_OneChangePerKey ==
    pc = "analyzed" =>
        \A i \in 1..Len(summary.Files) :
            LET file == summary.Files[i]
                removedKeys == KeysOn(file, "-")
                addedKeys == KeysOn(file, "+")
            IN isConfigFile(file.Path) =>
                 \A key \in removedKeys \cup addedKeys :
                    /\ Cardinality(ChangesFor(file, key)) = 1
                    /\ \A j \in ChangesFor(file, key) :
                          LET change == changeContext.ConfigChanges[j]
                          IN /\ (key \in removedKeys \cap addedKeys) =>
                                   /\ change.OldValue \in ValuesOn(file, "-", key)
                                   /\ change.NewValue \in ValuesOn(file, "+", key)
                             /\ (key \in addedKeys \ removedKeys) =>
                                   /\ ~change.OldValue.set
                                   /\ change.NewValue \in ValuesOn(file, "+", key)
                             /\ (key \in removedKeys \ addedKeys) =>
                                   /\ change.OldValue \in ValuesOn(file, "-", key)
                                   /\ ~change.NewValue.set

\* the diff of the scenario: the new Go file of 80 added lines and a .yaml
\* file in which `config.Timeout = 30` is removed and `config.Timeout = 60`
\* is added
TimeoutScenario ==
    /\ pc = "analyzed"
    /\ Len(summary.Files) = 2
    /\ summary.Files[1] = AddedGoFile
    /\ summary.Files[1].LinesAdded = 80
    /\ summary.Files[2].Path = "app.yaml"
    /\ summary.Files[2].Content = "-config.Timeout = 30\n+config.Timeout = 60"

TimeoutRationale(parameter) ==
    "Timeout configuration '" \o parameter \o "' adjusted from 30 to 60"
    \o " - likely for performance optimization or reliability improvement"

-----------------------------------------------------------------------------
(* internal/ai: RateLimiter *)

\* time.Minute, in ticks of the clock
TicksPerMinute == 12

\* the clock is followed up to this reading, and this many calls of Wait
MaxClock == 14
MaxWaits == 3

\* time.Time{}: the zero Time lies before every reading of the clock by
\* more than any interval
ZeroTime == 0 - 1000 * TicksPerMinute

\* the budgets a limiter is built with (the Gemini client passes 10); the
\* Duration division keeps whole ticks
RequestsPerMinute == { 2, 5, 10, 12 }

\* NewRateLimiter(requestsPerMinute): lastRequest is left at its zero value
RateLimiter(requestsPerMinute) ==
    [lastRequest |-> ZeroTime, minInterval |-> TicksPerMinute \div requestsPerMinute]

sleepFor_Nothing(rl, now) == 0

\* the first three statements of Wait: the duration handed to time.Sleep,
\* 0 when Wait does not sleep
sleepFor(rl, now) ==
    LET elapsed == now - rl.lastRequest
    IN IF elapsed < rl.minInterval THEN rl.minInterval - elapsed ELSE 0

InitLimiter ==
    /\ pc = "limiter"
    /\ summary = Nil
    /\ ParseIdle
    /\ ProcIdle
    /\ VerIdle
    /\ TagIdle
    /\ ScopeIdle
    /\ MsgIdle
    /\ CtxIdle
    /\ LimIdle
    /\ RespIdle
    /\ GenIdle
    /\ ConcIdle

NewRateLimiter ==
    /\ pc = "limiter"
    /\ limiter = Nil
    /\ \E requestsPerMinute \in RequestsPerMinute :
          limiter' = RateLimiter(requestsPerMinute)
    /\ waitLog' = [count |-> 0, previous |-> ZeroTime, last |-> ZeroTime,
                   firstSlept |-> FALSE, lastSlept |-> FALSE]
    /\ UNCHANGED <<pc, summary, clock, waiting, parseVars, procVars, verVars,
                   tagVars, scopeVars, msgVars, ctxVars, respVars, genVars, concVars>>

\* Wait is called: it reads the clock and, if the interval has not elapsed,
\* goes to sleep for the rest of it
WaitCalled ==
    /\ pc = "limiter"
    /\ limiter # Nil
    /\ waiting = Nil
    /\ waitLog.count < MaxWaits
    /\ waiting' = [now |-> clock, sleep |-> sleepFor(limiter, clock)]
    /\ UNCHANGED <<pc, summary, clock, limiter, waitLog, parseVars, procVars,
                   verVars, tagVars, scopeVars, msgVars, ctxVars, respVars, genVars, concVars>>

\* Wait returns: time.Sleep has paused the caller for at least the duration
\* it was given, the clock is read again into lastRequest, and the caller
\* goes on
WaitReturned ==
    /\ pc = "limiter"
    /\ waiting # Nil
    /\ clock >= waiting.now + waiting.sleep
    /\ limiter' = [limiter EXCEPT !.lastRequest = clock]
    /\ waitLog' = [count |-> waitLog.count + 1,
                   previous |-> waitLog.last,
                   last |-> clock,
                   firstSlept |-> IF waitLog.count = 0 THEN waiting.sleep > 0
                                  ELSE waitLog.firstSlept,
                   lastSlept |-> waiting.sleep > 0]
    /\ waiting' = Nil
    /\ UNCHANGED <<pc, summary, clock, parseVars, procVars, verVars, tagVars,
                   scopeVars, msgVars, ctxVars, respVars, genVars, concVars>>

\* time passes
Tick ==
    /\ pc = "limiter"
    /\ clock < MaxClock
    /\ clock' = clock + 1
    /\ UNCHANGED <<pc, summary, limiter, waiting, waitLog, parseVars, procVars,
                   verVars, tagVars, scopeVars, msgVars, ctxVars, respVars, genVars, concVars>>

NextLimiter == NewRateLimiter \/ WaitCalled \/ WaitReturned \/ Tick

SpecLimiter == InitLimiter /\ [][NextLimiter]_vars

-----------------------------------------------------------------------------
(* Properties of the rate limiter *)

\* C20: for calls made one after another on one RateLimiter, every Wait
\* returns no earlier than the minimum interval (one minute divided by the
\* requests-per-minute budget) after the previous Wait returned, the
\* limiter holds the time the last Wait returned as its last-call
\* timestamp, and the first Wait does not sleep.
C20_WaitSpacesCalls ==
    (pc = "limiter" /\ limiter # Nil) =>
        /\ \E requestsPerMinute \in RequestsPerMinute :
              limiter.minInterval = TicksPerMinute \div requestsPerMinute
        /\ waitLog.count >= 2 =>
              waitLog.last - waitLog.previous >= limiter.minInterval
        /\ waitLog.count >= 1 =>
              /\ limiter.lastRequest = waitLog.last
              /\ ~waitLog.firstSlept
        /\ waitLog.count = 0 => limiter.lastRequest = ZeroTime

C20_Witness ==
    /\ pc = "limiter"
    /\ limiter # Nil
    /\ waitLog.count >= 2
    /\ waitLog.lastSlept
    /\ waitLog.last - waitLog.previous = limiter.minInterval
    /\ limiter.minInterval > 1


-----------------------------------------------------------------------------
(* Properties of the tag command: the keyword flags *)

InvalidKeyword ==
    \/ ParseTypeFlag(flags.type) = "invalid"
    \/ ParsePreReleaseFlag(flags.preRelease) = "invalid"

\* C21: a forced bump keyword other than major/minor/patch, or a
\* pre-release keyword other than alpha/beta/rc, makes the tag command fail
\* before the version analysis is asked for, and no tag is created.
C21_InvalidKeywordFailsFirst ==
    InvalidKeyword =>
        /\ ~tagRun.analysed
        /\ analysis = Nil
        /\ tagRun.created = <<>>


-----------------------------------------------------------------------------
(* Properties of the diff processor: stability of the prioritization *)

EqualSortKeys(fileI, fileJ) ==
    /\ getChangeTypePriority(fileI.ChangeType) = getChangeTypePriority(fileJ.ChangeType)
    /\ getFileImportance(fileI.Path) = getFileImportance(fileJ.Path)
    /\ fileI.LinesAdded + fileI.LinesDeleted = fileJ.LinesAdded + fileJ.LinesDeleted

\* C22: prioritizeFiles is stable: two files that are equal on all three
\* sort keys appear in the output in the same relative order as in the
\* input (stated for inputs that hold no file twice, so that a file of the
\* output is one file of the input).
C22_PrioritizeStable ==
    (/\ pc = "sorted"
     /\ \A i, j \in 1..Len(summary.Files) :
           i # j => summary.Files[i] # summary.Files[j]) =>
        \A i, j \in 1..Len(summary.Files) :
            (i < j /\ EqualSortKeys(summary.Files[i], summary.Files[j])) =>
                \A k, l \in 1..Len(processed.Sorted) :
                    (/\ processed.Sorted[k] = summary.Files[i]
                     /\ processed.Sorted[l] = summary.Files[j]) => k < l


-----------------------------------------------------------------------------
(* Properties of the diff parser: the line counts of a section *)

\* index of the first hunk header of a section, 0 when it has none
FirstHunkHeader(section) ==
    IF \E i \in 1..Len(section) : HasPrefix(section[i], "@@")
    THEN CHOOSE i \in 1..Len(section) :
            /\ HasPrefix(section[i], "@@")
            /\ \A j \in 1..(i - 1) : ~HasPrefix(section[j], "@@")
    ELSE 0

\* the number of lines after the first hunk header that start with marker
BodyLinesWith(section, marker) ==
    IF FirstHunkHeader(section) = 0 THEN 0
    ELSE Cardinality({ i \in (FirstHunkHeader(section) + 1)..Len(section) :
                         HasPrefix(section[i], marker) })

\* C23: LinesAdded (LinesDeleted) of a parsed section is the number of
\* hunk-body lines, from the first `@@` header to the end of the section,
\* that start with `+` (`-`); the `+++` / `---` file-header lines precede
\* the first hunk header, and a content line whose own text begins with
\* `++` or `--` is counted; a section without hunk header has both counts 0.
C23_HunkBodyLineCounts ==
    (pc = "parsed" /\ diffOutput # <<>>) =>
        LET sections == splitDiffByFile(diffOutput)
        IN /\ Len(summary.Files) = Len(sections)
           /\ \A k \in 1..Len(sections) :
                 /\ summary.Files[k].LinesAdded = BodyLinesWith(sections[k], "+")
                 /\ summary.Files[k].LinesDeleted = BodyLinesWith(sections[k], "-")


-----------------------------------------------------------------------------
(* createChunks: what every chunk holds *)

RECURSIVE ContentLength(_)
ContentLength(files) ==
    IF files = <<>> THEN 0 ELSE Len(Head(files).Content) + ContentLength(Tail(files))

\* The description strings are "Empty chunk" or a fmt.Sprintf with literal
\* text around its verbs; only a literal text field could be empty
EmptyDescription(description) ==
    "text" \in DOMAIN description /\ description.text = ""

ChunkHoldsFiles(chunk) ==
    /\ Len(chunk.Files) >= 1
    /\ ~EmptyDescription(chunk.Description)
    /\ chunk.Size = ContentLength(chunk.Files)

\* C24 as stated: every chunk returned by createChunks holds at least one
\* file, has a non-empty description and has Size > 0, Size being the sum of
\* the content lengths of its files; an empty file list yields no chunk.
C24_ChunkSizePositive ==
    (pc = "chunked" /\ summary # Nil) =>
        /\ \A c \in 1..Len(processed.Chunks) :
               ChunkHoldsFiles(processed.Chunks[c]) /\ processed.Chunks[c].Size > 0
        /\ summary.Files = <<>> => processed.Chunks = <<>>

\* C24 amended: every chunk returned by createChunks holds at least one file,
\* has a non-empty description and has Size equal to the sum of the content
\* lengths of its files, which is positive exactly when one of its files has
\* content (a chunk of files without content, as GetCommitDiffSummary builds
\* them, has Size 0); an empty file list yields no chunk.
C24_ChunkSizeIsContentLength ==
    (pc = "chunked" /\ summary # Nil) =>
        /\ \A c \in 1..Len(processed.Chunks) :
               LET chunk == processed.Chunks[c] IN
               /\ ChunkHoldsFiles(chunk)
               /\ chunk.Size > 0 <=>
                      \E i \in 1..Len(chunk.Files) : chunk.Files[i].Content # ""
        /\ summary.Files = <<>> => processed.Chunks = <<>>

\* createChunks has returned a chunk of size 0 next to a chunk with content
C24_Witness ==
    /\ pc = "chunked" /\ summary # Nil
    /\ \E c \in 1..Len(processed.Chunks) : processed.Chunks[c].Size = 0
    /\ \E c \in 1..Len(processed.Chunks) : processed.Chunks[c].Size > 0


-----------------------------------------------------------------------------
(* internal/ai: parseVersionAnalysis *)

\* strings.LastIndex(s, c) for a one-character c, 0 if none
RECURSIVE LastIndexFrom(_, _, _)
LastIndexFrom(s, c, i) ==
    IF i < 1 THEN 0
    ELSE IF CharAt(s, i) = c THEN i
    ELSE LastIndexFrom(s, c, i - 1)

\* encoding/json, for the documents the responses hold: one object whose
\* members are strings without escapes, numbers without exponent, null, or
\* arrays of strings.  A scan returns [ok, v, next]: whether a value was
\* read at i, the value, and the position after it.
JsonFail == [ok |-> FALSE, v |-> Nil, next |-> 0]

JsonOk(v, next) == [ok |-> TRUE, v |-> v, next |-> next]

RECURSIVE JsonSkip(_, _)
JsonSkip(s, i) == IF i <= Len(s) /\ IsWhite(CharAt(s, i)) THEN JsonSkip(s, i + 1) ELSE i

RECURSIVE PowerOfTen(_)
PowerOfTen(k) == IF k = 0 THEN 1 ELSE 10 * PowerOfTen(k - 1)

\* A float64 read from a decimal literal, kept exact as num / den
Number(num, den) == [num |-> num, den |-> den]

JsonStringTo(s, i, close) ==
    IF close = 0 \/ Contains(SubSeq(s, i + 1, close - 1), "\\") THEN JsonFail
    ELSE JsonOk([kind |-> "string", s |-> SubSeq(s, i + 1, close - 1)], close + 1)

\* a string from its opening quote at i to the next quote
JsonString(s, i) ==
    IF CharAt(s, i) # "\"" THEN JsonFail ELSE JsonStringTo(s, i, IndexFrom(s, "\"", i + 1))

\* a number whose digits start at start, the integer part ends before
\* intEnd and the fraction, if any, before fracEnd
JsonNumberOf(s, i, start, intEnd, fracEnd) ==
    IF \/ intEnd = start
       \/ intEnd - start > 1 /\ CharAt(s, start) = "0"
       \/ fracEnd = intEnd + 1
       \/ CharAt(s, fracEnd) \in {"e", "E"}
    THEN JsonFail
    ELSE JsonOk([kind |-> "number",
                 n |-> Number((IF start > i THEN 0 - 1 ELSE 1)
                                * Atoi(SubSeq(s, start, intEnd - 1) \o SubSeq(s, intEnd + 1, fracEnd - 1)),
                              IF fracEnd > intEnd THEN PowerOfTen(fracEnd - intEnd - 1) ELSE 1)],
                fracEnd)

JsonNumberInt(s, i, start, intEnd) ==
    JsonNumberOf(s, i, start, intEnd,
                 IF CharAt(s, intEnd) = "." THEN DigitsEnd(s, intEnd + 1) ELSE intEnd)

JsonNumberFrom(s, i, start) == JsonNumberInt(s, i, start, DigitsEnd(s, start))

JsonNumber(s, i) == JsonNumberFrom(s, i, IF CharAt(s, i) = "-" THEN i + 1 ELSE i)

\* the elements of an array after "[" or after a comma
RECURSIVE JsonStringsFrom(_, _, _)
JsonStringsNext(s, j, list) ==
    IF CharAt(s, j) = "," THEN JsonStringsFrom(s, j + 1, list)
    ELSE IF CharAt(s, j) = "]" THEN JsonOk([kind |-> "strings", list |-> list], j + 1)
    ELSE JsonFail

JsonStringsElem(s, acc, elem) ==
    IF ~elem.ok THEN JsonFail
    ELSE JsonStringsNext(s, JsonSkip(s, elem.next), Append(acc, elem.v.s))

JsonStringsFrom(s, i, acc) == JsonStringsElem(s, acc, JsonString(s, JsonSkip(s, i)))

JsonStringArrayAt(s, j) ==
    IF CharAt(s, j) = "]" THEN JsonOk([kind |-> "strings", list |-> <<>>], j + 1)
    ELSE JsonStringsFrom(s, j, <<>>)

JsonStringArray(s, i) == JsonStringArrayAt(s, JsonSkip(s, i + 1))

JsonValueOf(s, i, c) ==
    IF c = "\"" THEN JsonString(s, i)
    ELSE IF c = "[" THEN JsonStringArray(s, i)
    ELSE IF c = "-" \/ IsDigit(c) THEN JsonNumber(s, i)
    ELSE IF SubSeq(s, i, Min(i + 3, Len(s))) = "null" THEN JsonOk([kind |-> "null"], i + 4)
    ELSE JsonFail

JsonValue(s, i) == JsonValueOf(s, i, CharAt(s, i))

\* the members of an object after "{" or after a comma, as a sequence of
\* <<key, value>> in document order: the key, the colon, the value, and
\* what follows the value
RECURSIVE JsonMembersFrom(_, _, _)
JsonMembersNext(s, j, members) ==
    IF CharAt(s, j) = "," THEN JsonMembersFrom(s, j + 1, members)
    ELSE IF CharAt(s, j) = "}" THEN JsonOk(members, j + 1)
    ELSE JsonFail

JsonMemberValue(s, acc, key, val) ==
    IF ~val.ok THEN JsonFail
    ELSE JsonMembersNext(s, JsonSkip(s, val.next), Append(acc, <<key, val.v>>))

JsonMemberColon(s, acc, key, colon) ==
    IF CharAt(s, colon) # ":" THEN JsonFail
    ELSE JsonMemberValue(s, acc, key, JsonValue(s, JsonSkip(s, colon + 1)))

JsonMemberKey(s, acc, key) ==
    IF ~key.ok THEN JsonFail ELSE JsonMemberColon(s, acc, key.v.s, JsonSkip(s, key.next))

JsonMembersFrom(s, i, acc) == JsonMemberKey(s, acc, JsonString(s, JsonSkip(s, i)))

\* the whole document: one object and nothing but white space around it
JsonObjectEnd(s, members) ==
    IF members.ok /\ JsonSkip(s, members.next) > Len(s) THEN members ELSE JsonFail

JsonObjectMembers(s, j) ==
    JsonObjectEnd(s, IF CharAt(s, j) = "}" THEN JsonOk(<<>>, j + 1)
                     ELSE JsonMembersFrom(s, j, <<>>))

JsonObjectAt(s, open) ==
    IF CharAt(s, open) # "{" THEN JsonFail ELSE JsonObjectMembers(s, JsonSkip(s, open + 1))

JsonObject(s) == JsonObjectAt(s, JsonSkip(s, 1))

\* rawAnalysis: the fields of the anonymous struct and the kind each accepts
rawAnalysisFields ==
    [recommended_bump |-> "string", confidence |-> "number", reasoning |-> "string",
     breaking_changes |-> "strings", new_features |-> "strings", bug_fixes |-> "strings",
     documentation |-> "strings", dependencies |-> "strings"]

rawAnalysisZero ==
    [recommended_bump |-> "", confidence |-> Number(0, 1), reasoning |-> "",
     breaking_changes |-> <<>>, new_features |-> <<>>, bug_fixes |-> <<>>,
     documentation |-> <<>>, dependencies |-> <<>>]

PayloadOf(value) ==
    CASE value.kind = "string" -> value.s
      [] value.kind = "number" -> value.n
      [] value.kind = "strings" -> value.list

\* the struct after the members from i on are stored: a key selects a field
\* whatever its case, an unknown key is skipped, null leaves the field alone,
\* a value of another kind is an UnmarshalTypeError
RECURSIVE StoreMembers(_, _, _)
StoreMember(members, i, raw, field, value) ==
    IF field \notin DOMAIN rawAnalysisFields \/ value.kind = "null"
    THEN StoreMembers(members, i + 1, raw)
    ELSE IF value.kind # rawAnalysisFields[field]
    THEN [ok |-> FALSE, raw |-> raw]
    ELSE StoreMembers(members, i + 1, [raw EXCEPT ![field] = PayloadOf(value)])

StoreMembers(members, i, raw) ==
    IF i > Len(members) THEN [ok |-> TRUE, raw |-> raw]
    ELSE StoreMember(members, i, raw, ToLower(members[i][1]), members[i][2])

UnmarshalDocument(doc) ==
    IF ~doc.ok THEN [ok |-> FALSE, raw |-> rawAnalysisZero]
    ELSE StoreMembers(doc.v, 1, rawAnalysisZero)

\* json.Unmarshal([]byte(jsonStr), &rawAnalysis)
Unmarshal(jsonStr) == UnmarshalDocument(JsonObject(jsonStr))

\* The markdown code fence, three grave accents in the source; a string of
\* this module cannot hold that character and "~" stands for it
Fence == "~~~"

\* the removal of the markdown code fence around the response
StripCodeFence(text) ==
    IF HasPrefix(text, Fence \o "json")
    THEN TrimSuffix(TrimPrefix(text, Fence \o "json"), Fence)
    ELSE IF HasPrefix(text, Fence) THEN TrimSuffix(TrimPrefix(text, Fence), Fence)
    ELSE text

ClampConfidence_NoUpperBound(confidence) ==
    IF confidence.num < 0 THEN Number(0, 1) ELSE confidence

\* "Ensure confidence is within valid range"
ClampConfidence(confidence) ==
    IF confidence.num < 0 THEN Number(0, 1)
    ELSE IF confidence.num > confidence.den THEN Number(1, 1)
    ELSE confidence

\* what parseVersionAnalysis returns; err is "" for a nil error
ParseResult(result, err) == [analysis |-> result, err |-> err]

\* parseVersionAnalysis from the bump switch on
AnalysisOfRaw(raw, bump) ==
    IF bump \notin {"major", "minor", "patch"}
    THEN ParseResult(Nil, "invalid bump type")
    ELSE ParseResult([RecommendedBump |-> bump,
                      Confidence |-> ClampConfidence(raw.confidence),
                      Reasoning |-> raw.reasoning,
                      BreakingChanges |-> raw.breaking_changes,
                      NewFeatures |-> raw.new_features,
                      BugFixes |-> raw.bug_fixes,
                      Documentation |-> raw.documentation,
                      Dependencies |-> raw.dependencies], "")

AnalysisOfDecoded(decoded) ==
    IF ~decoded.ok THEN ParseResult(Nil, "failed to parse JSON response")
    ELSE AnalysisOfRaw(decoded.raw, ToLower(decoded.raw.recommended_bump))

\* parseVersionAnalysis from the search for the braces on
AnalysisOfSpan(text, jsonStart, jsonEnd) ==
    IF jsonStart = 0 \/ jsonEnd = 0 \/ jsonStart >= jsonEnd
    THEN ParseResult(Nil, "no valid JSON found in response")
    ELSE AnalysisOfDecoded(Unmarshal(SubSeq(text, jsonStart, jsonEnd)))

AnalysisOfText(text) ==
    AnalysisOfSpan(text, IndexFrom(text, "{", 1), LastIndexFrom(text, "}", Len(text)))

parseVersionAnalysis(response) ==
    AnalysisOfText(TrimSpace(StripCodeFence(TrimSpace(response))))

\* The JSON documents, well-formed and not, that the responses hold
ResponseBodies ==
    { "{\"recommended_bump\": \"minor\", \"confidence\": 0.85, \"reasoning\": \"adds a flag\", \"new_features\": [\"flag\", \"api\"]}",
      "{\"recommended_bump\":\"MAJOR\",\"confidence\":1.5,\"breaking_changes\":[]}",
      "{\"recommended_bump\":\"patch\",\"confidence\":-0.2}",
      "{\"Recommended_Bump\":\"Patch\",\"Confidence\":1}",
      "{\"recommended_bump\":\"minor\",\"confidence\":0,\"extra\":null}",
      "{\"recommended_bump\":\"patch\"}",
      "{\"recommended_bump\":\"none\",\"confidence\":0.5}",
      "{\"recommended_bump\":\"prerelease\",\"confidence\":2}",
      "{\"confidence\":0.5}",
      "{}",
      "{\"recommended_bump\":\"minor\",\"confidence\":\"high\"}",
      "{\"recommended_bump\":\"minor\",}",
      "{\"recommended_bump\":\"minor\",\"confidence\":0.9",
      "}{",
      "a minor bump" }

\* <<before, after>>: the text the model's answer puts around the document
ResponseWrappers ==
    { <<"", "">>, <<"  ", "\n">>, <<Fence \o "json\n", "\n" \o Fence>>, <<Fence \o "\n", "\n" \o Fence \o "\n">>,
      <<"Here is the analysis:\n", "">>, <<"", "\nSee {notes}">> }

Responses == { w[1] \o body \o w[2] : w \in ResponseWrappers, body \in ResponseBodies }

InitResponse ==
    /\ pc = "response"
    /\ summary = Nil
    /\ responseText = Nil
    /\ parsedAnalysis = Nil
    /\ ParseIdle
    /\ ProcIdle
    /\ VerIdle
    /\ TagIdle
    /\ ScopeIdle
    /\ MsgIdle
    /\ CtxIdle
    /\ LimIdle
    /\ GenIdle
    /\ ConcIdle

\* the generative model has answered the version-analysis prompt
ReceiveResponse ==
    /\ pc = "response"
    /\ \E text \in Responses : responseText' = text
    /\ pc' = "received"
    /\ UNCHANGED <<summary, parsedAnalysis, parseVars, procVars, verVars, tagVars, scopeVars, msgVars, ctxVars, limVars, genVars, concVars>>

ParseVersionAnalysis ==
    /\ pc = "received"
    /\ parsedAnalysis' = parseVersionAnalysis(responseText)
    /\ pc' = "parsed-analysis"
    /\ UNCHANGED <<summary, responseText, parseVars, procVars, verVars, tagVars, scopeVars, msgVars, ctxVars, limVars, genVars, concVars>>

NextResponse == ReceiveResponse \/ ParseVersionAnalysis

SpecResponse == InitResponse /\ [][NextResponse]_vars

HasBraceSpan(text) ==
    \E i, j \in 1..Len(text) : i < j /\ CharAt(text, i) = "{" /\ CharAt(text, j) = "}"

\* the confidence of a returned analysis against the decoded one
ConfidenceClamped(confidence, given) ==
    /\ 0 <= confidence.num
    /\ confidence.num <= confidence.den
    /\ given.num < 0 => confidence = Number(0, 1)
    /\ given.num > given.den => confidence = Number(1, 1)
    /\ (0 <= given.num /\ given.num <= given.den) => confidence = given

\* what was returned for a response, against the cleaned text of the
\* response and what json.Unmarshal makes of the text between its braces
AnalysisOrError(result, err, hasSpan, decoded) ==
    /\ (result = Nil) # (err = "")
    /\ result # Nil =>
           /\ result.RecommendedBump \in {VersionBumpMajor, VersionBumpMinor, VersionBumpPatch}
           /\ ConfidenceClamped(result.Confidence, decoded.raw.confidence)
    /\ ~hasSpan => err # ""
    /\ (hasSpan /\ ~decoded.ok) => err # ""
    /\ (hasSpan /\ decoded.ok
          /\ ToLower(decoded.raw.recommended_bump) \notin {"major", "minor", "patch"})
          => err # ""

AnalysisOrErrorFor(result, err, text) ==
    AnalysisOrError(result, err, HasBraceSpan(text),
        Unmarshal(SubSeq(text, IndexFrom(text, "{", 1), LastIndexFrom(text, "}", Len(text)))))

\* C25: parseVersionAnalysis returns either an error and no analysis, or an
\* analysis and no error (err is ""); the analysis has a RecommendedBump
\* among major, minor, patch and a confidence within [0, 1], a decoded value
\* below 0 having become 0 and one above 1 having become 1; a response
\* without a "{" ... "}" span, with undecodable JSON or with another bump
\* keyword gives an error.
C25_AnalysisOrError ==
    pc = "parsed-analysis" =>
        AnalysisOrErrorFor(parsedAnalysis.analysis, parsedAnalysis.err,
                           TrimSpace(StripCodeFence(TrimSpace(responseText))))

\* an analysis was returned whose confidence had to be brought down to 1
C25_Witness ==
    /\ pc = "parsed-analysis"
    /\ parsedAnalysis.analysis # Nil
    /\ parsedAnalysis.analysis.RecommendedBump = VersionBumpMajor
    /\ parsedAnalysis.analysis.Confidence = Number(1, 1)
    /\ Contains(responseText, "1.5")


-----------------------------------------------------------------------------
(* internal/generator: Generate and applyCommit *)

GenerateOptions == [DryRun : BOOLEAN, IncludeStaged : BOOLEAN]

\* `git commit -m <message>`: committed, refused (nothing to commit, a hook
\* failed), or the binary could not be started
CommitOutcomes == { Exited(0), Exited(1), NotStarted }

\* What the calls Generate makes find: the repository, the staged-changes
\* query, the diff summary (an error, or a number of files), the answer of
\* the AI client, and what `git commit` will do if it is run
GenerateWorlds ==
    [isRepo : BOOLEAN, stagedRun : DiffQuietOutcomes(TRUE) \cup DiffQuietOutcomes(FALSE),
     diffErr : BOOLEAN, files : 0..2, aiErr : BOOLEAN, formatted : {"", "feat: add flag"},
     commitRun : CommitOutcomes]

\* CommitMessage.String() of the generated message
CommitMessageString == "feat: add flag"

GenerateResult(commitMessage, applied) == [CommitMessage |-> commitMessage, Applied |-> applied]

\* the error of the checks Generate makes before it asks for a message, ""
\* when they all pass
GenerateChecksError(opts, world) ==
    LET staged == HasStagedChanges(world.stagedRun) IN
    IF ~world.isRepo THEN "not in a Git repository"
    ELSE IF staged.err # "" THEN "failed to check for staged changes"
    ELSE IF ~staged.has /\ opts.IncludeStaged THEN "no staged changes found"
    ELSE IF world.diffErr THEN "failed to get diff summary"
    ELSE IF world.files = 0 THEN "no changes detected"
    ELSE ""

\* applyCommit: the text handed to `git commit -m`
CommitText(commitMessage) ==
    IF commitMessage.FormattedMessage # "" THEN commitMessage.FormattedMessage
    ELSE CommitMessageString

ShouldApply_Always(opts) == TRUE

\* "Apply the commit if not in dry-run mode"
ShouldApply(opts) == ~opts.DryRun

InitGenerate ==
    /\ pc = "generate"
    /\ summary = Nil
    /\ generation = Nil
    /\ ParseIdle
    /\ ProcIdle
    /\ VerIdle
    /\ TagIdle
    /\ ScopeIdle
    /\ MsgIdle
    /\ CtxIdle
    /\ LimIdle
    /\ RespIdle
    /\ ConcIdle

genOthers == <<summary, parseVars, procVars, verVars, tagVars, scopeVars, msgVars, ctxVars, limVars, respVars, concVars>>

\* Generate is called; commits lists the texts `git commit` was run with
GenerateCalled ==
    /\ pc = "generate"
    /\ \E opts \in GenerateOptions, world \in GenerateWorlds :
           generation' = [options |-> opts, world |-> world, commits |-> <<>>,
                          result |-> Nil, err |-> ""]
    /\ pc' = "generate-called"
    /\ UNCHANGED genOthers

\* Generate up to ProcessDiff: an early return with an error and no result
GenerateChecks ==
    /\ pc = "generate-called"
    /\ LET err == GenerateChecksError(generation.options, generation.world) IN
       IF err # ""
       THEN generation' = [generation EXCEPT !.err = err] /\ pc' = "generate-returned"
       ELSE generation' = generation /\ pc' = "generate-checked"
    /\ UNCHANGED genOthers

\* GenerateCommitMessage, formatting and validation, up to the result literal
GenerateMessage ==
    /\ pc = "generate-checked"
    /\ IF generation.world.aiErr
       THEN /\ generation' = [generation EXCEPT !.err = "failed to generate commit message"]
            /\ pc' = "generate-returned"
       ELSE /\ generation' = [generation EXCEPT !.result =
                   GenerateResult([FormattedMessage |-> generation.world.formatted], FALSE)]
            /\ pc' = "generate-result"
    /\ UNCHANGED genOthers

\* the end of Generate: applyCommit unless in dry-run mode, and the return
GenerateApply ==
    /\ pc = "generate-result"
    /\ IF ShouldApply(generation.options)
       THEN LET text == CommitText(generation.result.CommitMessage)
                ran  == [generation EXCEPT !.commits = Append(@, text)]
            IN IF generation.world.commitRun # Exited(0)
               THEN generation' = [ran EXCEPT !.err = "failed to apply commit"]
               ELSE generation' = [ran EXCEPT !.result.Applied = TRUE]
       ELSE generation' = generation
    /\ pc' = "generate-returned"
    /\ UNCHANGED genOthers

NextGenerate == GenerateCalled \/ GenerateChecks \/ GenerateMessage \/ GenerateApply

SpecGenerate == InitGenerate /\ [][NextGenerate]_vars

\* C26: Generate with DryRun set never runs the commit command and returns
\* Applied = false; Applied = true is returned only when DryRun is unset and
\* the commit command succeeded; a failed commit returns an error together
\* with a result whose Applied is false.
C26_AppliedOnlyAfterCommit ==
    generation # Nil =>
        LET dryRun == generation.options.DryRun
            result == generation.result
        IN /\ dryRun => generation.commits = <<>>
           /\ (pc = "generate-returned" /\ dryRun /\ generation.err = "") =>
                  result # Nil /\ ~result.Applied
           /\ (result # Nil /\ result.Applied) =>
                  /\ ~dryRun
                  /\ Len(generation.commits) = 1
                  /\ generation.world.commitRun = Exited(0)
                  /\ generation.err = ""
           /\ (generation.commits # <<>> /\ generation.world.commitRun # Exited(0)) =>
                  /\ generation.err = "failed to apply commit"
                  /\ result # Nil /\ ~result.Applied

\* Generate has returned after a commit command that failed
C26_Witness ==
    /\ pc = "generate-returned"
    /\ ~generation.options.DryRun
    /\ generation.commits = <<CommitMessageString>>
    /\ generation.world.commitRun = Exited(1)
    /\ generation.result # Nil


-----------------------------------------------------------------------------
(* internal/ai: Wait called by several goroutines on one RateLimiter *)

\* the goroutines that share the limiter
Callers == { "first", "second" }

\* a caller outside Wait
Outside == [in |-> FALSE, now |-> 0, sleep |-> 0]

InitSharedLimiter ==
    /\ pc = "limiter"
    /\ summary = Nil
    /\ callers = [c \in Callers |-> Outside]
    /\ returns = <<>>
    /\ ParseIdle
    /\ ProcIdle
    /\ VerIdle
    /\ TagIdle
    /\ ScopeIdle
    /\ MsgIdle
    /\ CtxIdle
    /\ LimIdle
    /\ RespIdle
    /\ GenIdle

sharedOthers == <<pc, summary, parseVars, procVars, verVars, tagVars, scopeVars, msgVars, ctxVars, respVars, genVars>>

\* A caller enters Wait: it reads the clock and rl.lastRequest, with no lock
\* taken, and goes to sleep for what is left of the interval.  The read sees
\* the timestamp as the other callers' writes so far have left it.
SharedWaitCalled ==
    /\ pc = "limiter"
    /\ limiter # Nil
    /\ Len(returns) + Cardinality({ c \in Callers : callers[c].in }) < MaxWaits
    /\ \E c \in Callers :
          /\ ~callers[c].in
          /\ callers' = [callers EXCEPT ![c] =
                 [in |-> TRUE, now |-> clock, sleep |-> sleepFor(limiter, clock)]]
    /\ UNCHANGED <<clock, limiter, waiting, waitLog, returns>>
    /\ UNCHANGED sharedOthers

\* A caller leaves Wait: its sleep is over, it stores the clock reading in
\* rl.lastRequest and returns
SharedWaitReturned ==
    /\ pc = "limiter"
    /\ \E c \in Callers :
          /\ callers[c].in
          /\ clock >= callers[c].now + callers[c].sleep
          /\ callers' = [callers EXCEPT ![c] = Outside]
    /\ limiter' = [limiter EXCEPT !.lastRequest = clock]
    /\ returns' = Append(returns, clock)
    /\ UNCHANGED <<clock, waiting, waitLog>>
    /\ UNCHANGED sharedOthers

NextSharedLimiter == NewRateLimiter \/ SharedWaitCalled \/ SharedWaitReturned \/ Tick

SpecSharedLimiter == InitSharedLimiter /\ [][NextSharedLimiter]_vars

\* C27: when Wait is called by concurrent callers on one RateLimiter, any two
\* calls return at least the minimum interval apart, and the limiter's
\* timestamp is that of the call that returned last (no update is lost).
C27_ConcurrentWaitsSpaced ==
    limiter # Nil =>
        /\ \A i, j \in 1..Len(returns) :
               i < j => returns[j] - returns[i] >= limiter.minInterval
        /\ returns # <<>> => limiter.lastRequest = returns[Len(returns)]


-----------------------------------------------------------------------------
(* The tag command run again and again on one repository *)

InitRelease ==
    /\ pc = "repo"
    /\ summary = Nil
    /\ ParseIdle
    /\ ProcIdle
    /\ VerIdle
    /\ TagIdle
    /\ ScopeIdle
    /\ MsgIdle
    /\ CtxIdle
    /\ LimIdle
    /\ RespIdle
    /\ GenIdle
    /\ ConcIdle

releaseOthers == <<summary, rendered, reparsed, parseVars, procVars, tagVars, scopeVars, msgVars, ctxVars, limVars, respVars, genVars, concVars>>

\* Names of tags that others put in the repository between the runs
ForeignTagNames == { "v1.0.0", "v1.0.0-rc.1", "v0.9.9", "latest" }

\* a tag is added by hand
ForeignTag ==
    /\ pc = "repo"
    /\ Len(tags) < MaxTags
    /\ \E name \in ForeignTagNames : tags' = Append(tags, name)
    /\ UNCHANGED <<pc, latestVersion, analysis, options, nextVersion>>
    /\ UNCHANGED releaseOthers

\* a run of the tag command starts: GetLatestVersion over the tags in the
\* order `git tag -l` lists them this time; runs are followed while the
\* repository holds no more than MaxTags tags
RunGetLatestVersion ==
    /\ pc = "repo"
    /\ Len(tags) <= MaxTags
    /\ \E listing \in Rearrangements(tags) : latestVersion' = GetLatestVersionOf(listing)
    /\ pc' = "run-latest"
    /\ UNCHANGED <<tags, analysis, options, nextVersion>>
    /\ UNCHANGED releaseOthers

\* the bump is the one the analysis recommends, no --type being given; the
\* pre-release option is any of the three or none
RunCalculateNextVersion ==
    /\ pc = "run-latest"
    /\ \E bump \in Bumps, preRelease \in PreReleases \cup {""} :
         /\ analysis' = [RecommendedBump |-> bump]
         /\ options' = [ForceBump |-> "", PreRelease |-> preRelease]
         /\ nextVersion' = CalculateNextVersion(latestVersion, analysis', options')
    /\ pc' = "run-next"
    /\ UNCHANGED <<tags, latestVersion>>
    /\ UNCHANGED releaseOthers

\* CreateTag: `git tag` adds nextVersion.TagName() to the repository
RunCreateTag ==
    /\ pc = "run-next"
    /\ tags' = Append(tags, TagName(nextVersion))
    /\ pc' = "run-created"
    /\ UNCHANGED <<latestVersion, analysis, options, nextVersion>>
    /\ UNCHANGED releaseOthers

\* the process exits; the repository keeps its tags
RunEnds ==
    /\ pc = "run-created"
    /\ latestVersion' = Nil
    /\ analysis' = Nil
    /\ options' = Nil
    /\ nextVersion' = Nil
    /\ pc' = "repo"
    /\ UNCHANGED tags
    /\ UNCHANGED releaseOthers

NextRelease ==
    \/ ForeignTag
    \/ RunGetLatestVersion
    \/ RunCalculateNextVersion
    \/ RunCreateTag
    \/ RunEnds

SpecRelease == InitRelease /\ [][NextRelease]_vars

\* C28: across any sequence of tag runs, the version a run has created is
\* strictly newer under isVersionNewer than every version that was tagged
\* before, and its tag name did not exist before: once the tag is created
\* the name occurs once among the tags and every other tag that parses is
\* older.
C28_CreatedVersionIsNewest ==
    pc = "run-created" =>
        LET created == TagName(nextVersion)
            listed  == GetTags(tags)
        IN /\ Cardinality({ i \in 1..Len(tags) : tags[i] = created }) = 1
           /\ \A i \in 1..Len(tags) :
                  (tags[i] # created /\ listed[i].Version # Nil) =>
                      /\ isVersionNewer(nextVersion, listed[i].Version)
                      /\ ~isVersionNewer(listed[i].Version, nextVersion)

\* a second run has created a pre-release tag next to the tag of a first run
C28_Witness ==
    /\ pc = "run-created"
    /\ Len(tags) = 2
    /\ \A i \in 1..Len(tags) : tags[i] \notin TagNames
    /\ nextVersion.PreRelease # ""


-----------------------------------------------------------------------------
(* Properties of the scope detector: repeated calls *)

\* C29: DetectScope is deterministic: for the rule list of the detector and
\* the files of the diff every call returns the same scope, the one that
\* was returned, also when two detected scopes tie on file count and on
\* highest rule priority.
C29_DetectScopeDeterministic ==
    pc = "detected" =>
        DetectScope(detector.rules, detection.files) = { detection.scope }


-----------------------------------------------------------------------------
(* Properties of the tag command: a cleanliness query that fails *)

\* the query was run and exited with a code that answers nothing
FailedQuery(run) == run # Nil /\ run.exited /\ run.code \notin {0, 1}

\* C30: if the staged or the unstaged `git diff --quiet` query exits with a
\* code other than 0 (no changes) or 1 (changes), ValidateRepositoryState
\* returns an error and the run neither analyses changes nor creates a tag.
C30_FailedQueryIsAnError ==
    (tagRun # Nil /\ tagRun.validated # ""
       /\ (FailedQuery(tagRun.stagedRun) \/ FailedQuery(tagRun.unstagedRun))) =>
        /\ tagRun.validated = "error"
        /\ ~tagRun.analysed
        /\ tagRun.created = <<>>

====
